---- MODULE Spec2Model ----
(***************************************************************************)
(* Cadenza API (src/server/app): the relational state behind the handlers  *)
(* of main.py and the handlers themselves, one action per handler.         *)
(*                                                                         *)
(* The committed database is the record db, one field per table of         *)
(* models.py.  A handler is an operator from (db, inputs) to the set of    *)
(* its possible outcomes [db |-> committed state after it, reply |-> what  *)
(* the caller gets]; a handler that raises before db.commit() leaves the   *)
(* committed state as it was (database.py: the Session of get_db is closed *)
(* without a commit, which rolls the transaction back).                    *)
(*                                                                         *)
(* The schema of models.py is enforced as declared: primary keys, the      *)
(* unique constraints and the foreign keys (config.py: the engine is       *)
(* PostgreSQL).  A commit that would break one raises IntegrityError.      *)
(*                                                                         *)
(* db.objects is no table: it is the set of keys that hold an object in    *)
(* the bucket of s3.py.  A write to it is not part of the transaction and  *)
(* no rollback undoes it.                                                  *)
(*                                                                         *)
(* Columns that no handler reads to decide anything (created_at,           *)
(* updated_at, full_name, user_type) are left out of the rows.  Ids are    *)
(* numbers handed out by the counters of db.next (uuid4 and the serial     *)
(* users.id: never one that is in use).                                    *)
(*                                                                         *)
(* jwks_cache is the process-wide cache of Apple's public keys             *)
(* (apple_auth.py), the one state the server keeps outside the database.   *)
(***************************************************************************)
EXTENDS Integers, Sequences, FiniteSets, TLC

VARIABLES db, last, tx, now, requests, settings, jwks_cache

vars == <<db, last, tx, now, requests, settings, jwks_cache>>

(***************************************************************************)
(* Bounds of the model.                                                    *)
(***************************************************************************)
\* The state-changing requests served in one behaviour.
MaxRequests == 2

(***************************************************************************)
(* Python's None: one value for the optional integer columns and ids (all  *)
(* real ids and times are >= 0), one for the optional string columns.      *)
(***************************************************************************)
Null == 0 - 1
NullStr == "NULL"

Titles == {"Scales", "Bach"}
Descriptions == {NullStr, "weekly"}

\* Addresses: 0 is a string without "@"; k > 0 is the k-th well-formed address
\* (1 and 2 are those of users 1 and 2, 3 is nobody's yet).
Emails == 0..3

\* set_teacher: `not teacher_email or "@" not in teacher_email`
IsInvalidEmail(e) == e = 0

(***************************************************************************)
(* Table access.                                                           *)
(***************************************************************************)
\* db.get(Model, id): the row or None; here the set of rows with that id.
Get(table, id) == {x \in table : x.id = id}

Has(table, id) == Get(table, id) # {}

Row(table, id) == CHOOSE x \in table : x.id = id

IdsIn(f) == [i \in 1..Len(f) |-> f[i].id]

\* The registered users: those who signed in and so can hold a bearer token.
Callers(d) == {u.id : u \in {x \in d.users : x.apple_user_id # Null}}

UserIds(d) == {u.id : u \in d.users}

\* Candidate ids for a path parameter: the existing ones and one unknown id.
IdsOrUnknown(table) == {x.id : x \in table} \cup {99}

(***************************************************************************)
(* What a handler answers.                                                 *)
(***************************************************************************)
\* A request body of schemas.ExerciseSessionCreate / ExerciseSessionUpdate:
\* fields_set is pydantic's model_fields_set, the fields the body carries; a
\* field it does not carry has the default None.
Body(is_complete, fields_set, actual_time_seconds, reflections) ==
    [is_complete |-> is_complete, fields_set |-> fields_set,
     actual_time_seconds |->
        IF "actual_time_seconds" \in fields_set THEN actual_time_seconds ELSE Null,
     reflections |->
        IF "reflections" \in fields_set THEN reflections ELSE NullStr]

NoBody == Body(TRUE, {}, Null, NullStr)

\* A bearer credential.  kind "dev" is "dev_token_user_<suffix>", suffix Null
\* when the text after the prefix is no integer; kind "jwt" is three segments
\* of base64: signed says the signature verifies under settings.jwt_secret_key,
\* expired that exp has passed, sub is the claim (Null: absent, NaN: a string
\* that is no integer); kind "malformed" is any other string.
NaN == 0 - 2

Token(kind, suffix, signed, expired, sub) ==
    [kind |-> kind, suffix |-> suffix, signed |-> signed, expired |-> expired,
     sub |-> sub]

DevToken(suffix) == Token("dev", suffix, FALSE, FALSE, Null)

JwtToken(signed, expired, sub) == Token("jwt", Null, signed, expired, sub)

MalformedToken == Token("malformed", Null, FALSE, FALSE, Null)

NoToken == Token("none", Null, FALSE, FALSE, Null)

\* What apple_auth.verify_apple_id_token (apple_auth.py 47-66) makes of an
\* identity token: "invalid" raises InvalidTokenError, "unavailable" is any
\* other exception (Apple's keys cannot be fetched), "verified" returns the
\* payload with sub and email (email Null: the payload has none).
AppleIdToken(verdict, sub, email) ==
    [verdict |-> verdict, sub |-> sub, email |-> email]

NoIdToken == AppleIdToken("none", Null, Null)

Reply(op, status, caller) ==
    [op |-> op, status |-> status, caller |-> caller,
     student |-> Null, routine |-> Null, new_routine |-> Null,
     pieces_shared |-> Null, row |-> Null, session |-> Null, exercise |-> Null,
     piece |-> Null, submission |-> Null, upload_url |-> Null,
     thumbnail_upload_url |-> Null,
     list |-> <<>>, payload |-> NoBody, detail |-> NullStr,
     credential |-> NoToken, id_token |-> NoIdToken]

\* An error response: the transaction is rolled back, db is the one before.
\* (the reply keeps the handler and the status; db is the one before)
Fail(d, op, status, caller) == [db |-> d, reply |-> Reply(op, status, Null)]

Ok(d, op, caller) == [db |-> d, reply |-> Reply(op, "ok", caller)]

(***************************************************************************)
(* The schema of models.py.                                                *)
(***************************************************************************)
Ids(table) == {x.id : x \in table}

\* primary_key=True: no two rows of a table share an id.
PrimaryKeysOK(d) ==
    /\ \A x, y \in d.users : x.id = y.id => x = y
    /\ \A x, y \in d.pieces : x.id = y.id => x = y
    /\ \A x, y \in d.routines : x.id = y.id => x = y
    /\ \A x, y \in d.exercises : x.id = y.id => x = y
    /\ \A x, y \in d.assignments : x.id = y.id => x = y
    /\ \A x, y \in d.psessions : x.id = y.id => x = y
    /\ \A x, y \in d.esessions : x.id = y.id => x = y
    /\ \A x, y \in d.submissions : x.id = y.id => x = y
    /\ \A x, y \in d.messages : x.id = y.id => x = y

\* The foreign keys without routine_assignments.routine_id.
ForeignKeysOKWithoutAssignments(d) ==
    /\ \A u \in d.users : u.teacher_id # Null => u.teacher_id \in Ids(d.users)
    /\ \A p \in d.pieces :
          /\ p.owner_id \in Ids(d.users)
          /\ p.shared_from_piece_id # Null => p.shared_from_piece_id \in Ids(d.pieces)
    /\ \A r \in d.routines :
          /\ r.owner_id \in Ids(d.users)
          /\ r.assigned_by_id # Null => r.assigned_by_id \in Ids(d.users)
          /\ r.shared_from_routine_id # Null
                => r.shared_from_routine_id \in Ids(d.routines)
    /\ \A e \in d.exercises :
          /\ e.routine_id \in Ids(d.routines)
          /\ e.piece_id \in Ids(d.pieces)
    /\ \A a \in d.assignments :
          /\ a.student_id \in Ids(d.users)
          /\ a.assigned_by_id \in Ids(d.users)
    /\ \A s \in d.psessions :
          /\ s.user_id \in Ids(d.users)
          /\ s.routine_id \in Ids(d.routines)
    /\ \A x \in d.esessions :
          /\ x.session_id \in Ids(d.psessions)
          /\ x.exercise_id \in Ids(d.exercises)
    /\ \A v \in d.submissions :
          /\ v.user_id \in Ids(d.users)
          /\ v.exercise_id # Null => v.exercise_id \in Ids(d.exercises)
          /\ v.piece_id # Null => v.piece_id \in Ids(d.pieces)
          /\ v.session_id # Null => v.session_id \in Ids(d.psessions)
          /\ v.reviewed_by_id # Null => v.reviewed_by_id \in Ids(d.users)
    /\ \A m \in d.messages :
          /\ m.submission_id \in Ids(d.submissions)
          /\ m.sender_id \in Ids(d.users)

\* Field(foreign_key=...): a non-null reference names an existing row.
ForeignKeysOK(d) ==
    /\ \A u \in d.users : u.teacher_id # Null => u.teacher_id \in Ids(d.users)
    /\ \A p \in d.pieces :
          /\ p.owner_id \in Ids(d.users)
          /\ p.shared_from_piece_id # Null => p.shared_from_piece_id \in Ids(d.pieces)
    /\ \A r \in d.routines :
          /\ r.owner_id \in Ids(d.users)
          /\ r.assigned_by_id # Null => r.assigned_by_id \in Ids(d.users)
          /\ r.shared_from_routine_id # Null
                => r.shared_from_routine_id \in Ids(d.routines)
    /\ \A e \in d.exercises :
          /\ e.routine_id \in Ids(d.routines)
          /\ e.piece_id \in Ids(d.pieces)
    /\ \A a \in d.assignments :
          /\ a.student_id \in Ids(d.users)
          /\ a.routine_id \in Ids(d.routines)
          /\ a.assigned_by_id \in Ids(d.users)
    /\ \A s \in d.psessions :
          /\ s.user_id \in Ids(d.users)
          /\ s.routine_id \in Ids(d.routines)
    /\ \A x \in d.esessions :
          /\ x.session_id \in Ids(d.psessions)
          /\ x.exercise_id \in Ids(d.exercises)
    /\ \A v \in d.submissions :
          /\ v.user_id \in Ids(d.users)
          /\ v.exercise_id # Null => v.exercise_id \in Ids(d.exercises)
          /\ v.piece_id # Null => v.piece_id \in Ids(d.pieces)
          /\ v.session_id # Null => v.session_id \in Ids(d.psessions)
          /\ v.reviewed_by_id # Null => v.reviewed_by_id \in Ids(d.users)
    /\ \A m \in d.messages :
          /\ m.submission_id \in Ids(d.submissions)
          /\ m.sender_id \in Ids(d.users)

\* The constraints without unique=True on routine_assignments.student_id.
UniqueOKWithoutAssignments(d) ==
    /\ \A u, v \in d.users :
          (u.apple_user_id # Null /\ u.apple_user_id = v.apple_user_id) => u = v
    /\ \A x, y \in d.esessions :
          (x.session_id = y.session_id /\ x.exercise_id = y.exercise_id) => x = y

\* unique=True on routine_assignments.student_id and users.apple_user_id,
\* UniqueConstraint("session_id", "exercise_id") on exercise_sessions.
UniqueOK(d) ==
    /\ \A a, b \in d.assignments : a.student_id = b.student_id => a = b
    /\ \A u, v \in d.users :
          (u.apple_user_id # Null /\ u.apple_user_id = v.apple_user_id) => u = v
    /\ \A x, y \in d.esessions :
          (x.session_id = y.session_id /\ x.exercise_id = y.exercise_id) => x = y

IntegrityOK(d) == PrimaryKeysOK(d) /\ ForeignKeysOK(d) /\ UniqueOK(d)

\* db.commit(): the pending state becomes the committed one, or the engine
\* raises IntegrityError (an unhandled exception: a 500, rolled back).
Commit(d, pending, reply) ==
    IF IntegrityOK(pending)
    THEN [db |-> pending, reply |-> reply]
    ELSE Fail(d, reply.op, "integrity_error", reply.caller)

\* A session closed without a commit that keeps what it had flushed.
RollbackWritesThrough(d, st) == st.db

\* database.py 9-11: leaving `with Session(engine)` closes the session; what
\* it flushed (st.db) and did not commit is rolled back to the committed d.
Rollback(d, st) == d

(***************************************************************************)
(* Piece management.                                                       *)
(***************************************************************************)
\* s3.get_piece_s3_key(piece_id): "<prefix>cadenza/pieces/<piece_id>.pdf", a
\* key per piece id that is no id; keys are the numbers from 1000 on.
get_piece_s3_key(piece_id) == 1000 + piece_id

\* main.py 262-306: create_piece.  s3.upload_file_content (s3.py 62-91) puts
\* the object before the row is added; when put_object fails it raises and
\* nothing was written.
create_piece(d, c, title, pdf_filename) ==
    LET piece_id == d.next.piece
        s3_key == get_piece_s3_key(piece_id)
        piece == [id |-> piece_id, owner_id |-> c, title |-> title,
                  pdf_filename |-> pdf_filename, s3_key |-> s3_key,
                  shared_from_piece_id |-> Null]
        uploaded == [d EXCEPT !.objects = @ \cup {s3_key}]
        pending == [uploaded EXCEPT !.pieces = @ \cup {piece},
                                    !.next.piece = @ + 1]
    IN  {Fail(d, "create_piece", "server_error", c),
         Commit(uploaded, pending, Reply("create_piece", "ok", c))}

\* A share that asks only for the owner of the piece, not for whose student
\* the target is.
share_piece_with_any_user(d, c, piece_id, student_id) ==
    IF ~Has(d.pieces, piece_id)
    THEN {Fail(d, "share_piece", "not_found", c)}
    ELSE LET original_piece == Row(d.pieces, piece_id) IN
         IF original_piece.owner_id # c
         THEN {Fail(d, "share_piece", "forbidden", c)}
         ELSE IF ~Has(d.users, student_id)
         THEN {Fail(d, "share_piece", "not_found", c)}
         ELSE LET new_piece ==
                    [id |-> d.next.piece, owner_id |-> student_id,
                     title |-> original_piece.title,
                     pdf_filename |-> original_piece.pdf_filename,
                     s3_key |-> Null,
                     shared_from_piece_id |-> original_piece.id]
                  pending == [d EXCEPT !.pieces = @ \cup {new_piece},
                                       !.next.piece = @ + 1]
              IN  {Commit(d, pending, Reply("share_piece", "ok", c))}

\* An update that keeps a copy and its source in step: the new title is
\* written to the piece and to the piece it was shared from.
update_piece_and_source(d, c, piece_id, title) ==
    IF ~Has(d.pieces, piece_id) THEN {Fail(d, "update_piece", "not_found", c)}
    ELSE LET piece == Row(d.pieces, piece_id) IN
         IF piece.owner_id # c THEN {Fail(d, "update_piece", "forbidden", c)}
         ELSE LET linked == {x \in d.pieces :
                               x.id \in {piece.id, piece.shared_from_piece_id}}
                  pending ==
                    [d EXCEPT !.pieces = (@ \ linked)
                                \cup {[x EXCEPT !.title = title] : x \in linked}]
              IN  {Commit(d, pending, Reply("update_piece", "ok", c))}

update_piece(d, c, piece_id, title) ==
    IF ~Has(d.pieces, piece_id) THEN {Fail(d, "update_piece", "not_found", c)}
    ELSE LET piece == Row(d.pieces, piece_id) IN
         IF piece.owner_id # c THEN {Fail(d, "update_piece", "forbidden", c)}
         ELSE LET pending ==
                    [d EXCEPT !.pieces = (@ \ {piece})
                                          \cup {[piece EXCEPT !.title = title]}]
              IN  {Commit(d, pending, Reply("update_piece", "ok", c))}

delete_piece(d, c, piece_id) ==
    IF ~Has(d.pieces, piece_id) THEN {Fail(d, "delete_piece", "not_found", c)}
    ELSE LET piece == Row(d.pieces, piece_id) IN
         IF piece.owner_id # c THEN {Fail(d, "delete_piece", "forbidden", c)}
         ELSE LET pending == [d EXCEPT !.pieces = @ \ {piece}]
              IN  {Commit(d, pending, Reply("delete_piece", "ok", c))}

share_piece_with_student(d, c, piece_id, student_id) ==
    IF ~Has(d.pieces, piece_id)
    THEN {Fail(d, "share_piece", "not_found", c)}
    ELSE LET original_piece == Row(d.pieces, piece_id) IN
         IF original_piece.owner_id # c
         THEN {Fail(d, "share_piece", "forbidden", c)}
         ELSE IF ~Has(d.users, student_id)
         THEN {Fail(d, "share_piece", "not_found", c)}
         ELSE IF Row(d.users, student_id).teacher_id # c
         THEN {Fail(d, "share_piece", "forbidden", c)}
         ELSE LET new_piece ==
                    [id |-> d.next.piece, owner_id |-> student_id,
                     title |-> original_piece.title,
                     pdf_filename |-> original_piece.pdf_filename,
                     s3_key |-> Null,
                     shared_from_piece_id |-> original_piece.id]
                  pending == [d EXCEPT !.pieces = @ \cup {new_piece},
                                       !.next.piece = @ + 1]
              IN  {Commit(d, pending, Reply("share_piece", "ok", c))}

\* s3.generate_download_url(s3_key): a presigned GET for the key, a URL per
\* key; these URLs are the numbers from 20000 on.
generate_download_url(s3_key) == 20000 + s3_key

\* main.py 440-467: get_piece_download_url; the URL is in reply.row.
get_piece_download_url(d, c, piece_id) ==
    IF ~Has(d.pieces, piece_id)
    THEN {Fail(d, "download_url", "not_found", c)}
    ELSE LET piece == Row(d.pieces, piece_id) IN
         IF piece.owner_id # c
         THEN {Fail(d, "download_url", "forbidden", c)}
         ELSE IF piece.s3_key = Null
         THEN {Fail(d, "download_url", "not_found", c)}
         ELSE {[db |-> d,
                reply |-> [Reply("download_url", "ok", c)
                             EXCEPT !.row = generate_download_url(piece.s3_key)]]}

(***************************************************************************)
(* Teacher/student management.                                             *)
(***************************************************************************)
set_teacher(d, c, teacher_email) ==
    LET current_user == Row(d.users, c) IN
    IF IsInvalidEmail(teacher_email)
    THEN {Fail(d, "set_teacher", "bad_request", c)}
    ELSE IF teacher_email = current_user.email
    THEN {Fail(d, "set_teacher", "bad_request", c)}
    ELSE LET found == {u \in d.users : u.email = teacher_email} IN
         IF found = {}
         THEN \* a stub user for this address, committed before the link is
              LET stub == [id |-> d.next.user, apple_user_id |-> Null,
                           email |-> teacher_email, teacher_id |-> Null]
                  pending ==
                    [d EXCEPT !.users = (@ \ {current_user})
                                  \cup {stub, [current_user EXCEPT
                                                 !.teacher_id = stub.id]},
                              !.next.user = @ + 1]
              IN  {Commit(d, pending, Reply("set_teacher", "ok", c))}
         ELSE {Commit(d,
                      [d EXCEPT !.users = (@ \ {current_user})
                                  \cup {[current_user EXCEPT
                                           !.teacher_id = teacher.id]}],
                      Reply("set_teacher", "ok", c)) : teacher \in found}

remove_teacher(d, c) ==
    LET current_user == Row(d.users, c)
        pending == [d EXCEPT !.users = (@ \ {current_user})
                               \cup {[current_user EXCEPT !.teacher_id = Null]}]
    IN  {Commit(d, pending, Reply("remove_teacher", "ok", c))}

(***************************************************************************)
(* Routine and exercise management.                                        *)
(***************************************************************************)
create_routine(d, c, title, description) ==
    LET new_routine ==
          [id |-> d.next.routine, owner_id |-> c, title |-> title,
           description |-> description, assigned_by_id |-> Null,
           assigned_at |-> Null, shared_from_routine_id |-> Null]
        pending == [d EXCEPT !.routines = @ \cup {new_routine},
                             !.next.routine = @ + 1]
    IN  {Commit(d, pending, Reply("create_routine", "ok", c))}

update_routine(d, c, routine_id, title, description) ==
    IF ~Has(d.routines, routine_id)
    THEN {Fail(d, "update_routine", "not_found", c)}
    ELSE LET routine == Row(d.routines, routine_id) IN
         IF routine.owner_id # c
         THEN {Fail(d, "update_routine", "forbidden", c)}
         ELSE LET pending ==
                    [d EXCEPT !.routines = (@ \ {routine})
                        \cup {[routine EXCEPT !.title = title,
                                              !.description = description]}]
              IN  {Commit(d, pending, Reply("update_routine", "ok", c))}

ExercisesOf(d, routine_id) == {e \in d.exercises : e.routine_id = routine_id}

\* A delete_routine that leaves the exercises to the database.
delete_routine_without_exercises(d, c, routine_id) ==
    IF ~Has(d.routines, routine_id)
    THEN {Fail(d, "delete_routine", "not_found", c)}
    ELSE LET routine == Row(d.routines, routine_id) IN
         IF routine.owner_id # c
         THEN {Fail(d, "delete_routine", "forbidden", c)}
         ELSE {Commit(d, [d EXCEPT !.routines = @ \ {routine}],
                      Reply("delete_routine", "ok", c))}

delete_routine(d, c, routine_id) ==
    IF ~Has(d.routines, routine_id)
    THEN {Fail(d, "delete_routine", "not_found", c)}
    ELSE LET routine == Row(d.routines, routine_id) IN
         IF routine.owner_id # c
         THEN {Fail(d, "delete_routine", "forbidden", c)}
         ELSE LET pending ==
                    [d EXCEPT !.exercises = @ \ ExercisesOf(d, routine.id),
                              !.routines = @ \ {routine}]
              IN  {Commit(d, pending, Reply("delete_routine", "ok", c))}

\* schemas.ExerciseCreate without the piece: the bodies the model sends.
ExerciseCreates ==
    {[order_index |-> 0, recommended_time_seconds |-> Null,
      intentions |-> NullStr, start_page |-> Null],
     [order_index |-> 1, recommended_time_seconds |-> 300,
      intentions |-> "focus", start_page |-> 2]}

\* add_exercise_to_routine without the check of the piece's owner.
add_exercise_on_any_piece(d, c, routine_id, piece_id, params) ==
    IF ~Has(d.routines, routine_id)
    THEN {Fail(d, "add_exercise", "not_found", c)}
    ELSE LET routine == Row(d.routines, routine_id) IN
         IF routine.owner_id # c
         THEN {Fail(d, "add_exercise", "forbidden", c)}
         ELSE IF ~Has(d.pieces, piece_id)
         THEN {Fail(d, "add_exercise", "not_found", c)}
         ELSE LET new_exercise ==
                    [id |-> d.next.exercise, routine_id |-> routine.id,
                     piece_id |-> piece_id, order_index |-> params.order_index,
                     recommended_time_seconds |-> params.recommended_time_seconds,
                     intentions |-> params.intentions,
                     start_page |-> params.start_page]
                  pending == [d EXCEPT !.exercises = @ \cup {new_exercise},
                                       !.next.exercise = @ + 1]
              IN  {Commit(d, pending, Reply("add_exercise", "ok", c))}

add_exercise_to_routine(d, c, routine_id, piece_id, params) ==
    IF ~Has(d.routines, routine_id)
    THEN {Fail(d, "add_exercise", "not_found", c)}
    ELSE LET routine == Row(d.routines, routine_id) IN
         IF routine.owner_id # c
         THEN {Fail(d, "add_exercise", "forbidden", c)}
         ELSE IF ~Has(d.pieces, piece_id)
         THEN {Fail(d, "add_exercise", "not_found", c)}
         ELSE IF Row(d.pieces, piece_id).owner_id # c
         THEN {Fail(d, "add_exercise", "forbidden", c)}
         ELSE LET new_exercise ==
                    [id |-> d.next.exercise, routine_id |-> routine.id,
                     piece_id |-> piece_id, order_index |-> params.order_index,
                     recommended_time_seconds |-> params.recommended_time_seconds,
                     intentions |-> params.intentions,
                     start_page |-> params.start_page]
                  pending == [d EXCEPT !.exercises = @ \cup {new_exercise},
                                       !.next.exercise = @ + 1]
              IN  {Commit(d, pending, Reply("add_exercise", "ok", c))}

\* schemas.ExerciseUpdate: a field that is None leaves the column as it is.
update_exercise(d, c, routine_id, exercise_id, upd) ==
    IF ~Has(d.routines, routine_id)
    THEN {Fail(d, "update_exercise", "not_found", c)}
    ELSE LET routine == Row(d.routines, routine_id) IN
         IF routine.owner_id # c
         THEN {Fail(d, "update_exercise", "forbidden", c)}
         ELSE IF \/ ~Has(d.exercises, exercise_id)
                 \/ Row(d.exercises, exercise_id).routine_id # routine.id
         THEN {Fail(d, "update_exercise", "not_found", c)}
         ELSE LET exercise == Row(d.exercises, exercise_id)
                  updated ==
                    [exercise EXCEPT
                       !.recommended_time_seconds =
                           IF upd.recommended_time_seconds # Null
                           THEN upd.recommended_time_seconds ELSE @,
                       !.intentions =
                           IF upd.intentions # NullStr THEN upd.intentions ELSE @,
                       !.start_page =
                           IF upd.start_page # Null THEN upd.start_page ELSE @,
                       !.order_index =
                           IF upd.order_index # Null THEN upd.order_index ELSE @]
                  pending == [d EXCEPT !.exercises = (@ \ {exercise}) \cup {updated}]
              IN  {Commit(d, pending, Reply("update_exercise", "ok", c))}

delete_exercise(d, c, routine_id, exercise_id) ==
    IF ~Has(d.routines, routine_id)
    THEN {Fail(d, "delete_exercise", "not_found", c)}
    ELSE LET routine == Row(d.routines, routine_id) IN
         IF routine.owner_id # c
         THEN {Fail(d, "delete_exercise", "forbidden", c)}
         ELSE IF \/ ~Has(d.exercises, exercise_id)
                 \/ Row(d.exercises, exercise_id).routine_id # routine.id
         THEN {Fail(d, "delete_exercise", "not_found", c)}
         ELSE LET pending ==
                    [d EXCEPT !.exercises = @ \ {Row(d.exercises, exercise_id)}]
              IN  {Commit(d, pending, Reply("delete_exercise", "ok", c))}

(***************************************************************************)
(* select(...).order_by(Exercise.order_index): the exercises of a routine  *)
(* in ascending order_index; rows with equal order_index come in any       *)
(* order, so the result is one of a set of sequences.                      *)
(***************************************************************************)
Perms(S) ==
    {f \in [1..Cardinality(S) -> S] :
        \A i, j \in 1..Cardinality(S) : i # j => f[i] # f[j]}

OrderedExercises(d, routine_id) ==
    {f \in Perms(ExercisesOf(d, routine_id)) :
        \A i, j \in 1..Len(f) : i < j => f[i].order_index <= f[j].order_index}

\* get_routine: the routine and its exercises, or the error.
get_routine(d, c, routine_id) ==
    IF ~Has(d.routines, routine_id) THEN {[status |-> "not_found", exercises |-> <<>>]}
    ELSE IF Row(d.routines, routine_id).owner_id # c
    THEN {[status |-> "forbidden", exercises |-> <<>>]}
    ELSE {[status |-> "ok", exercises |-> f] : f \in OrderedExercises(d, routine_id)}

\* main.py 902-919 and 927-943: the student's assignment, its routine and
\* the routine's exercises; None without an assignment.  routine.id raises
\* AttributeError when db.get finds no routine.
CurrentRoutine(d, student_id) ==
    LET found == {x \in d.assignments : x.student_id = student_id} IN
    IF found = {} THEN {[status |-> "ok", routine |-> Null, exercises |-> <<>>]}
    ELSE UNION {IF ~Has(d.routines, assignment.routine_id)
                THEN {[status |-> "server_error", routine |-> Null, exercises |-> <<>>]}
                ELSE {[status |-> "ok", routine |-> assignment.routine_id,
                       exercises |-> f]
                        : f \in OrderedExercises(d, assignment.routine_id)}
                  : assignment \in found}

\* main.py 921-943.
get_my_current_routine(d, c) == CurrentRoutine(d, c)

\* main.py 886-918.
get_student_current_routine(d, c, student_id) ==
    IF ~Has(d.users, student_id)
    THEN {[status |-> "not_found", routine |-> Null, exercises |-> <<>>]}
    ELSE IF Row(d.users, student_id).teacher_id # c
    THEN {[status |-> "forbidden", routine |-> Null, exercises |-> <<>>]}
    ELSE CurrentRoutine(d, student_id)

\* main.py 367-388: get_student_pieces.
get_student_pieces(d, c, student_id) ==
    IF ~Has(d.users, student_id) THEN [status |-> "not_found", pieces |-> {}]
    ELSE IF Row(d.users, student_id).teacher_id # c
    THEN [status |-> "forbidden", pieces |-> {}]
    ELSE [status |-> "ok", pieces |-> {p \in d.pieces : p.owner_id = student_id}]

(***************************************************************************)
(* reorder_exercises: the loop over enumerate(reorder.exercise_ids) writes *)
(* order_index into the session's rows as it goes and raises at the first  *)
(* id that is no exercise of the routine.                                  *)
(***************************************************************************)
RECURSIVE ReorderLoop(_, _, _, _)
\* [ok, exercises, exercise_id]: the session's exercise rows after the loop
\* from index i on, and the id it raised for.
ReorderLoop(exercises, routine_id, exercise_ids, i) ==
    IF i > Len(exercise_ids)
    THEN [ok |-> TRUE, exercises |-> exercises, exercise_id |-> Null]
    ELSE IF \/ ~Has(exercises, exercise_ids[i])
            \/ Row(exercises, exercise_ids[i]).routine_id # routine_id
    THEN [ok |-> FALSE, exercises |-> exercises, exercise_id |-> exercise_ids[i]]
    ELSE LET exercise == Row(exercises, exercise_ids[i]) IN
         ReorderLoop((exercises \ {exercise})
                        \cup {[exercise EXCEPT !.order_index = i - 1]},
                     routine_id, exercise_ids, i + 1)

\* reorder_exercises committing what the loop wrote before it raised.
reorder_exercises_as_it_goes(d, c, routine_id, exercise_ids) ==
    IF ~Has(d.routines, routine_id)
    THEN {Fail(d, "reorder", "not_found", c)}
    ELSE LET routine == Row(d.routines, routine_id) IN
         IF routine.owner_id # c
         THEN {Fail(d, "reorder", "forbidden", c)}
         ELSE LET loop == ReorderLoop(d.exercises, routine.id, exercise_ids, 1) IN
              IF ~loop.ok
              THEN {[db |-> [d EXCEPT !.exercises = loop.exercises],
                     reply |-> [Reply("reorder", "bad_request", Null) EXCEPT
                                   !.exercise = loop.exercise_id]]}
              ELSE {Commit(d, [d EXCEPT !.exercises = loop.exercises],
                           [Reply("reorder", "ok", c) EXCEPT !.routine = routine.id])}

\* Lines 718-752.  The HTTPException of line 741 leaves the handler before
\* db.commit(): the session is closed and what the loop wrote is rolled back.
reorder_exercises(d, c, routine_id, exercise_ids) ==
    IF ~Has(d.routines, routine_id)
    THEN {Fail(d, "reorder", "not_found", c)}
    ELSE LET routine == Row(d.routines, routine_id) IN
         IF routine.owner_id # c
         THEN {Fail(d, "reorder", "forbidden", c)}
         ELSE LET loop == ReorderLoop(d.exercises, routine.id, exercise_ids, 1) IN
              IF ~loop.ok
              THEN {[db |-> Rollback(d, [db |-> [d EXCEPT !.exercises =
                                                            loop.exercises]]),
                     reply |-> [Reply("reorder", "bad_request", Null) EXCEPT
                                   !.exercise = loop.exercise_id]]}
              ELSE {Commit(d, [d EXCEPT !.exercises = loop.exercises],
                           [Reply("reorder", "ok", c) EXCEPT !.routine = routine.id])}

(***************************************************************************)
(* Practice sessions.  datetime.now(timezone.utc) is the clock `now`.      *)
(***************************************************************************)
\* Lines 949-969.
start_practice_session(d, c, routine_id) ==
    IF ~Has(d.routines, routine_id)
    THEN {Fail(d, "start_session", "not_found", c)}
    ELSE IF Row(d.routines, routine_id).owner_id # c
    THEN {Fail(d, "start_session", "forbidden", c)}
    ELSE LET session == [id |-> d.next.psession, user_id |-> c,
                         routine_id |-> routine_id, started_at |-> now,
                         completed_at |-> Null, duration_seconds |-> Null]
             pending == [d EXCEPT !.psessions = @ \cup {session},
                                  !.next.psession = @ + 1]
         IN  {Commit(d, pending,
                     [Reply("start_session", "ok", c) EXCEPT !.session = session.id])}

\* A complete_practice_session that reopens a session completed before.
complete_practice_session_reopens(d, c, session_id) ==
    IF ~Has(d.psessions, session_id)
    THEN {Fail(d, "complete_session", "not_found", c)}
    ELSE LET session == Row(d.psessions, session_id) IN
         IF session.user_id # c
         THEN {Fail(d, "complete_session", "forbidden", c)}
         ELSE LET completed ==
                    IF session.completed_at # Null
                    THEN [session EXCEPT !.completed_at = Null,
                                         !.duration_seconds = Null]
                    ELSE [session EXCEPT !.completed_at = now,
                                         !.duration_seconds = now - session.started_at]
                  pending == [d EXCEPT !.psessions = (@ \ {session}) \cup {completed}]
              IN  {Commit(d, pending,
                          [Reply("complete_session", "ok", c) EXCEPT
                              !.session = session.id])}

\* Lines 972-1004.
complete_practice_session(d, c, session_id) ==
    IF ~Has(d.psessions, session_id)
    THEN {Fail(d, "complete_session", "not_found", c)}
    ELSE LET session == Row(d.psessions, session_id) IN
         IF session.user_id # c
         THEN {Fail(d, "complete_session", "forbidden", c)}
         ELSE LET completed ==
                    [session EXCEPT !.completed_at = now,
                                    !.duration_seconds = now - session.started_at]
                  pending == [d EXCEPT !.psessions = (@ \ {session}) \cup {completed}]
              IN  {Commit(d, pending,
                          [Reply("complete_session", "ok", c) EXCEPT
                              !.session = session.id])}

\* Lines 1025-1038 and 1091-1103: the checks the two exercise handlers share.
ExerciseSessionCheck(d, c, session_id, exercise_id) ==
    IF ~Has(d.psessions, session_id) THEN "not_found"
    ELSE IF Row(d.psessions, session_id).user_id # c THEN "forbidden"
    ELSE IF ~Has(d.exercises, exercise_id) THEN "not_found"
    ELSE IF Row(d.exercises, exercise_id).routine_id
               # Row(d.psessions, session_id).routine_id THEN "bad_request"
    ELSE "ok"

\* Lines 1040-1045 and 1105-1110: the rows select(...).first() chooses from.
ExerciseSessionsOf(d, session_id, exercise_id) ==
    {x \in d.esessions : x.session_id = session_id /\ x.exercise_id = exercise_id}

ExerciseSessionReply(op, c, row) ==
    [Reply(op, "ok", c) EXCEPT !.session = row.session_id,
                               !.exercise = row.exercise_id, !.row = row.id]

\* complete_exercise_in_session that inserts a row every time.
complete_exercise_always_inserts(d, c, session_id, exercise_id, exercise_session) ==
    LET check == ExerciseSessionCheck(d, c, session_id, exercise_id) IN
    IF check # "ok" THEN {Fail(d, "complete_exercise", check, c)}
    ELSE LET new_exercise_session ==
               [id |-> d.next.esession, session_id |-> session_id,
                exercise_id |-> exercise_id, completed_at |-> now,
                actual_time_seconds |-> exercise_session.actual_time_seconds,
                reflections |-> exercise_session.reflections]
         IN  {Commit(d, [d EXCEPT !.esessions = @ \cup {new_exercise_session},
                                  !.next.esession = @ + 1],
                     ExerciseSessionReply("complete_exercise", c,
                                          new_exercise_session))}

\* complete_exercise_in_session that ignores model_fields_set on an update.
complete_exercise_overwrites(d, c, session_id, exercise_id, exercise_session) ==
    LET check == ExerciseSessionCheck(d, c, session_id, exercise_id) IN
    IF check # "ok" THEN {Fail(d, "complete_exercise", check, c)}
    ELSE LET found == ExerciseSessionsOf(d, session_id, exercise_id) IN
         IF found # {}
         THEN {LET updated ==
                     [existing EXCEPT
                        !.completed_at = now,
                        !.actual_time_seconds = exercise_session.actual_time_seconds,
                        !.reflections = exercise_session.reflections]
               IN  Commit(d, [d EXCEPT !.esessions = (@ \ {existing}) \cup {updated}],
                          ExerciseSessionReply("complete_exercise", c, updated))
                 : existing \in found}
         ELSE LET new_exercise_session ==
                    [id |-> d.next.esession, session_id |-> session_id,
                     exercise_id |-> exercise_id, completed_at |-> now,
                     actual_time_seconds |-> exercise_session.actual_time_seconds,
                     reflections |-> exercise_session.reflections]
              IN  {Commit(d, [d EXCEPT !.esessions = @ \cup {new_exercise_session},
                                       !.next.esession = @ + 1],
                          ExerciseSessionReply("complete_exercise", c,
                                               new_exercise_session))}

\* Lines 1011-1070.
complete_exercise_in_session(d, c, session_id, exercise_id, exercise_session) ==
    LET check == ExerciseSessionCheck(d, c, session_id, exercise_id) IN
    IF check # "ok" THEN {Fail(d, "complete_exercise", check, c)}
    ELSE LET found == ExerciseSessionsOf(d, session_id, exercise_id) IN
         IF found # {}
         THEN {LET updated ==
                     [existing EXCEPT
                        !.completed_at = now,
                        !.actual_time_seconds =
                            IF "actual_time_seconds" \in exercise_session.fields_set
                            THEN exercise_session.actual_time_seconds ELSE @,
                        !.reflections =
                            IF "reflections" \in exercise_session.fields_set
                            THEN exercise_session.reflections ELSE @]
               IN  Commit(d, [d EXCEPT !.esessions = (@ \ {existing}) \cup {updated}],
                          ExerciseSessionReply("complete_exercise", c, updated))
                 : existing \in found}
         ELSE LET new_exercise_session ==
                    [id |-> d.next.esession, session_id |-> session_id,
                     exercise_id |-> exercise_id, completed_at |-> now,
                     actual_time_seconds |-> exercise_session.actual_time_seconds,
                     reflections |-> exercise_session.reflections]
              IN  {Commit(d, [d EXCEPT !.esessions = @ \cup {new_exercise_session},
                                       !.next.esession = @ + 1],
                          ExerciseSessionReply("complete_exercise", c,
                                               new_exercise_session))}

\* A toggle that writes the fields of the body whichever way it toggles.
ToggledWritesBody(exercise_session, update) ==
    [exercise_session EXCEPT
       !.completed_at = IF update.is_complete THEN now ELSE Null,
       !.actual_time_seconds =
           IF "actual_time_seconds" \in update.fields_set
           THEN update.actual_time_seconds ELSE @,
       !.reflections =
           IF "reflections" \in update.fields_set THEN update.reflections ELSE @]

\* Lines 1112-1126: what the toggle writes into the row.
Toggled(exercise_session, update) ==
    IF update.is_complete
    THEN [exercise_session EXCEPT
            !.completed_at = now,
            !.actual_time_seconds =
                IF "actual_time_seconds" \in update.fields_set
                THEN update.actual_time_seconds ELSE @,
            !.reflections =
                IF "reflections" \in update.fields_set THEN update.reflections ELSE @]
    ELSE [exercise_session EXCEPT !.completed_at = Null,
                                  !.actual_time_seconds = Null,
                                  !.reflections = NullStr]

\* toggle_exercise_completion that clears the timestamp alone.
toggle_clears_timestamp_only(d, c, session_id, exercise_id, update) ==
    LET check == ExerciseSessionCheck(d, c, session_id, exercise_id) IN
    IF check # "ok" THEN {Fail(d, "toggle", check, c)}
    ELSE LET found == ExerciseSessionsOf(d, session_id, exercise_id)
             candidates ==
               IF found # {} THEN found
               ELSE {[id |-> d.next.esession, session_id |-> session_id,
                      exercise_id |-> exercise_id, completed_at |-> Null,
                      actual_time_seconds |-> Null, reflections |-> NullStr]}
         IN  {LET toggled == IF update.is_complete
                             THEN Toggled(exercise_session, update)
                             ELSE [exercise_session EXCEPT !.completed_at = Null]
              IN  Commit(d, [d EXCEPT
                               !.esessions = (@ \ {exercise_session}) \cup {toggled},
                               !.next.esession = IF found # {} THEN @ ELSE @ + 1],
                         ExerciseSessionReply("toggle", c, toggled))
                : exercise_session \in candidates}

\* Lines 1077-1131.
toggle_exercise_completion(d, c, session_id, exercise_id, update) ==
    LET check == ExerciseSessionCheck(d, c, session_id, exercise_id) IN
    IF check # "ok" THEN {Fail(d, "toggle", check, c)}
    ELSE LET found == ExerciseSessionsOf(d, session_id, exercise_id)
             candidates ==
               IF found # {} THEN found
               ELSE {[id |-> d.next.esession, session_id |-> session_id,
                      exercise_id |-> exercise_id, completed_at |-> Null,
                      actual_time_seconds |-> Null, reflections |-> NullStr]}
         IN  {LET toggled == Toggled(exercise_session, update)
              IN  Commit(d, [d EXCEPT
                               !.esessions = (@ \ {exercise_session}) \cup {toggled},
                               !.next.esession = IF found # {} THEN @ ELSE @ + 1],
                         ExerciseSessionReply("toggle", c, toggled))
                : exercise_session \in candidates}

(***************************************************************************)
(* Routine assignment.  The handler works on the session's pending state   *)
(* (st.db) and commits once, at the end.                                   *)
(***************************************************************************)
MapGet(m, k, default) == IF k \in DOMAIN m THEN m[k] ELSE default

MapPut(m, k, v) == [x \in DOMAIN m \cup {k} |-> IF x = k THEN v ELSE m[x]]

\* Lines 798-812: the routine copy, the empty piece_mapping, the zero count.
AssignBegin(d, c, student_id, original_routine) ==
    LET new_routine ==
          [id |-> d.next.routine, owner_id |-> student_id,
           title |-> original_routine.title,
           description |-> original_routine.description,
           assigned_by_id |-> c, assigned_at |-> now,
           shared_from_routine_id |-> original_routine.id]
    IN  [db |-> [d EXCEPT !.routines = @ \cup {new_routine},
                          !.next.routine = @ + 1],
         new_routine_id |-> new_routine.id,
         piece_mapping |-> [x \in {} |-> Null],
         pieces_newly_shared |-> 0]

\* ResolvePiece without the look-up of lines 820-827: a copy every time.
ResolvePieceAlwaysCopies(st, student_id, orig_piece_id) ==
    IF orig_piece_id \in DOMAIN st.piece_mapping THEN {st}
    ELSE IF ~Has(st.db.pieces, orig_piece_id) THEN {st}
    ELSE LET original_piece == Row(st.db.pieces, orig_piece_id)
             new_piece ==
               [id |-> st.db.next.piece, owner_id |-> student_id,
                title |-> original_piece.title,
                pdf_filename |-> original_piece.pdf_filename,
                s3_key |-> original_piece.s3_key,
                shared_from_piece_id |-> original_piece.id]
         IN  {[st EXCEPT !.db.pieces = @ \cup {new_piece},
                         !.db.next.piece = @ + 1,
                         !.piece_mapping = MapPut(@, orig_piece_id, new_piece.id),
                         !.pieces_newly_shared = @ + 1]}

\* ResolvePiece counting a piece the student already had.
ResolvePieceCountsExisting(st, student_id, orig_piece_id) ==
    IF orig_piece_id \in DOMAIN st.piece_mapping THEN {st}
    ELSE LET existing == {p \in st.db.pieces :
                            /\ p.owner_id = student_id
                            /\ p.shared_from_piece_id = orig_piece_id}
         IN  IF existing # {}
             THEN {[st EXCEPT !.piece_mapping =
                                 MapPut(@, orig_piece_id, existing_piece.id),
                              !.pieces_newly_shared = @ + 1]
                     : existing_piece \in existing}
             ELSE IF ~Has(st.db.pieces, orig_piece_id) THEN {st}
             ELSE LET original_piece == Row(st.db.pieces, orig_piece_id)
                      new_piece ==
                        [id |-> st.db.next.piece, owner_id |-> student_id,
                         title |-> original_piece.title,
                         pdf_filename |-> original_piece.pdf_filename,
                         s3_key |-> original_piece.s3_key,
                         shared_from_piece_id |-> original_piece.id]
                  IN  {[st EXCEPT !.db.pieces = @ \cup {new_piece},
                                  !.db.next.piece = @ + 1,
                                  !.piece_mapping =
                                      MapPut(@, orig_piece_id, new_piece.id),
                                  !.pieces_newly_shared = @ + 1]}

\* Lines 818-843: resolve the source piece to a piece of the student.  The
\* select(...).first() has no order: any of the student's copies may come.
ResolvePiece(st, student_id, orig_piece_id) ==
    IF orig_piece_id \in DOMAIN st.piece_mapping THEN {st}
    ELSE LET existing == {p \in st.db.pieces :
                            /\ p.owner_id = student_id
                            /\ p.shared_from_piece_id = orig_piece_id}
         IN  IF existing # {}
             THEN {[st EXCEPT !.piece_mapping =
                                 MapPut(@, orig_piece_id, existing_piece.id)]
                     : existing_piece \in existing}
             ELSE IF ~Has(st.db.pieces, orig_piece_id) THEN {st}
             ELSE LET original_piece == Row(st.db.pieces, orig_piece_id)
                      new_piece ==
                        [id |-> st.db.next.piece, owner_id |-> student_id,
                         title |-> original_piece.title,
                         pdf_filename |-> original_piece.pdf_filename,
                         s3_key |-> original_piece.s3_key,
                         shared_from_piece_id |-> original_piece.id]
                  IN  {[st EXCEPT !.db.pieces = @ \cup {new_piece},
                                  !.db.next.piece = @ + 1,
                                  !.piece_mapping =
                                      MapPut(@, orig_piece_id, new_piece.id),
                                  !.pieces_newly_shared = @ + 1]}

\* CopyExercise keeping the teacher's piece.
CopyExerciseOnOriginalPiece(st, orig_exercise) ==
    LET new_exercise ==
          [id |-> st.db.next.exercise, routine_id |-> st.new_routine_id,
           piece_id |-> orig_exercise.piece_id,
           order_index |-> orig_exercise.order_index,
           recommended_time_seconds |-> orig_exercise.recommended_time_seconds,
           intentions |-> orig_exercise.intentions,
           start_page |-> orig_exercise.start_page]
    IN  [st EXCEPT !.db.exercises = @ \cup {new_exercise},
                   !.db.next.exercise = @ + 1]

\* Lines 845-858: the exercise of the copy.
CopyExercise(st, orig_exercise) ==
    LET student_piece_id ==
          MapGet(st.piece_mapping, orig_exercise.piece_id, orig_exercise.piece_id)
        new_exercise ==
          [id |-> st.db.next.exercise, routine_id |-> st.new_routine_id,
           piece_id |-> student_piece_id,
           order_index |-> orig_exercise.order_index,
           recommended_time_seconds |-> orig_exercise.recommended_time_seconds,
           intentions |-> orig_exercise.intentions,
           start_page |-> orig_exercise.start_page]
    IN  [st EXCEPT !.db.exercises = @ \cup {new_exercise},
                   !.db.next.exercise = @ + 1]

\* One turn of the loop of line 814.
AssignStep(st, student_id, orig_exercise) ==
    {CopyExercise(r, orig_exercise)
        : r \in ResolvePiece(st, student_id, orig_exercise.piece_id)}

RECURSIVE AssignLoop(_, _, _, _)
\* The loop from the i-th original exercise on, from each state of sts.
AssignLoop(sts, student_id, original_exercises, i) ==
    IF i > Len(original_exercises) THEN sts
    ELSE AssignLoop(UNION {AssignStep(st, student_id, original_exercises[i])
                             : st \in sts},
                    student_id, original_exercises, i + 1)

\* Lines 860-868: delete the student's assignment, if there is one.
DeleteExistingAssignment(st, student_id) ==
    LET found == {a \in st.db.assignments : a.student_id = student_id} IN
    IF found = {} THEN {st}
    ELSE {[st EXCEPT !.db.assignments = @ \ {existing_assignment}]
            : existing_assignment \in found}

\* InsertAssignment with the assignment on the caller's name.
InsertAssignmentForCaller(st, c, student_id) ==
    LET assignment ==
          [id |-> st.db.next.assignment, student_id |-> c,
           routine_id |-> st.new_routine_id, assigned_by_id |-> c,
           assigned_at |-> now]
    IN  [st EXCEPT !.db.assignments = @ \cup {assignment},
                   !.db.next.assignment = @ + 1]

\* Lines 870-874: the new assignment.
InsertAssignment(st, c, student_id) ==
    LET assignment ==
          [id |-> st.db.next.assignment, student_id |-> student_id,
           routine_id |-> st.new_routine_id, assigned_by_id |-> c,
           assigned_at |-> now]
    IN  [st EXCEPT !.db.assignments = @ \cup {assignment},
                   !.db.next.assignment = @ + 1]

\* Lines 879-883: the routine copy and pieces_shared.
AssignReply(st, c, student_id, routine_id) ==
    [Reply("assign", "ok", c) EXCEPT
        !.student = student_id, !.routine = routine_id,
        !.new_routine = st.new_routine_id,
        !.pieces_shared = st.pieces_newly_shared]

\* AssignCheck without the check of the routine's owner.
AssignCheckAnyOwner(d, c, student_id, routine_id) ==
    IF ~Has(d.users, student_id) THEN "not_found"
    ELSE IF Row(d.users, student_id).teacher_id # c THEN "forbidden"
    ELSE IF ~Has(d.routines, routine_id) THEN "not_found"
    ELSE "ok"

\* Lines 771-789: who may assign what to whom.
AssignCheck(d, c, student_id, routine_id) ==
    IF ~Has(d.users, student_id) THEN "not_found"
    ELSE IF Row(d.users, student_id).teacher_id # c THEN "forbidden"
    ELSE IF ~Has(d.routines, routine_id) THEN "not_found"
    ELSE IF Row(d.routines, routine_id).owner_id # c THEN "forbidden"
    ELSE "ok"

assign_routine_to_student(d, c, student_id, routine_id) ==
    LET check == AssignCheck(d, c, student_id, routine_id) IN
    IF check # "ok" THEN {Fail(d, "assign", check, c)}
    ELSE LET original_routine == Row(d.routines, routine_id)
             begun == AssignBegin(d, c, student_id, original_routine)
             copied == UNION {AssignLoop({begun}, student_id, original_exercises, 1)
                                : original_exercises
                                    \in OrderedExercises(d, original_routine.id)}
             deleted == UNION {DeleteExistingAssignment(st, student_id)
                                 : st \in copied}
         IN  {LET st == InsertAssignment(del, c, student_id)
              IN  Commit(d, st.db, AssignReply(st, c, student_id, routine_id))
                : del \in deleted}

\* apple_auth.py 14: _jwks_cache, a TTLCache of one entry "keys".  keys is
\* the set of key ids of the cached JWKS; held is "keys" in _jwks_cache.
NoKeys == [held |-> FALSE, keys |-> {}]

\* apple_auth.py 17-21: what _fetch_apple_public_keys does.  error "none":
\* the keys of the response; "HTTPError": httpx.get or raise_for_status
\* raised (no connection, timeout, a 4xx or 5xx status); "ValueError":
\* response.json() raised on a body that is no JSON.
Fetched(error, keys) == [error |-> error, keys |-> keys]

\* A get_apple_public_keys that does not fall back on the cached keys.
get_apple_public_keys_without_fallback(cache, force_refresh, fetched) ==
    IF ~force_refresh /\ cache.held
    THEN [raised |-> "none", keys |-> cache.keys, cache |-> cache, fetches |-> 0]
    ELSE IF fetched.error = "none"
    THEN [raised |-> "none", keys |-> fetched.keys,
          cache |-> [held |-> TRUE, keys |-> fetched.keys], fetches |-> 1]
    ELSE [raised |-> fetched.error, keys |-> {}, cache |-> cache, fetches |-> 1]

\* apple_auth.py 24-35: get_apple_public_keys.  fetched is what the one
\* call of _fetch_apple_public_keys does if it is made; fetches counts it.
get_apple_public_keys(cache, force_refresh, fetched) ==
    IF ~force_refresh /\ cache.held
    THEN [raised |-> "none", keys |-> cache.keys, cache |-> cache, fetches |-> 0]
    ELSE IF fetched.error = "none"
    THEN [raised |-> "none", keys |-> fetched.keys,
          cache |-> [held |-> TRUE, keys |-> fetched.keys], fetches |-> 1]
    ELSE IF fetched.error = "HTTPError" /\ cache.held
    THEN [raised |-> "none", keys |-> cache.keys, cache |-> cache, fetches |-> 1]
    ELSE [raised |-> fetched.error, keys |-> {}, cache |-> cache, fetches |-> 1]

\* config.py 8-41: the settings of a deployment; environment defaults to "dev".
Settings(environment) == [environment |-> environment]

is_dev(s) == s.environment = "dev"

(***************************************************************************)
(* Authentication (auth.py, main.py 58-142).                               *)
(*                                                                         *)
(* users.apple_user_id is a string; its three shapes are kept apart as     *)
(* number ranges: the subject of an Apple identity token is 1..99,         *)
(* "dev_<email>" is 100 + email, "mock_<id>" is 200 + id.  The addresses   *)
(* the code makes up are numbers off the range of Emails:                  *)
(* "user<id>@example.com" is 10 + id, "<sub>@privaterelay.appleid.com" is  *)
(* 20 + sub.                                                               *)
(***************************************************************************)
\* main.py 74, 84: f"dev_{email}"
dev_apple_user_id(email) == 100 + email

\* auth.py 62: f"mock_{user_id}"
mock_apple_user_id(user_id) == 200 + user_id

\* auth.py 63: f"user{user_id}@example.com"
mock_email(user_id) == 10 + user_id

\* main.py 113: f"{apple_user_id}@privaterelay.appleid.com"
privaterelay_email(apple_user_id) == 20 + apple_user_id

\* An apple_user_id written by dev_login or by the dev-token path, not by
\* Apple sign-in.
IsDevMarker(apple_user_id) == apple_user_id >= 100

\* HTTPException(401, detail=...) raised while authenticating.
Unauthenticated(d, op, detail) ==
    [db |-> d,
     reply |-> [Reply(op, "unauthenticated", Null) EXCEPT !.detail = detail]]

\* auth.py 74-98: the session-token path of get_current_user.  jwt.decode
\* checks the segments, then the signature, then exp.
get_current_user_jwt(d, op, token) ==
    IF token.kind # "jwt"
    THEN {Unauthenticated(d, op,
            "Invalid authentication credentials: Not enough segments")}
    ELSE IF ~token.signed
    THEN {Unauthenticated(d, op,
            "Invalid authentication credentials: Signature verification failed")}
    ELSE IF token.expired
    THEN {Unauthenticated(d, op,
            "Invalid authentication credentials: Signature has expired")}
    ELSE IF token.sub = Null
    THEN {Unauthenticated(d, op, "Invalid authentication credentials")}
    ELSE IF token.sub = NaN
    THEN {Unauthenticated(d, op,
            "Invalid authentication credentials: invalid literal for int()")}
    ELSE IF ~Has(d.users, token.sub)
    THEN {Unauthenticated(d, op, "User not found for id")}
    ELSE {Ok(d, op, token.sub)}

\* auth.py 47-98: get_current_user.  The dev-token path (54-72) reads neither
\* settings nor the user's apple_user_id; for an id that names no user it adds
\* a user (whose id is the next serial, not the id of the token) and commits.
get_current_user(d, s, op, token) ==
    IF token.kind = "dev" /\ token.suffix # Null
    THEN IF Has(d.users, token.suffix)
         THEN {Ok(d, op, token.suffix)}
         ELSE LET user == [id |-> d.next.user,
                           apple_user_id |-> mock_apple_user_id(token.suffix),
                           email |-> mock_email(token.suffix),
                           teacher_id |-> Null]
                  pending == [d EXCEPT !.users = @ \cup {user},
                                       !.next.user = @ + 1]
              IN  {Commit(d, pending, Reply(op, "ok", user.id))}
    ELSE get_current_user_jwt(d, op, token)

\* main.py 145-151: GET /auth/me answers the authenticated user.
get_current_user_info(d, s, token) == get_current_user(d, s, "me", token)

\* main.py 58-91: dev_login.
dev_login(d, s, email) ==
    IF ~is_dev(s) THEN {Fail(d, "dev_login", "not_found", Null)}
    ELSE LET found == {u \in d.users : u.email = email} IN
         IF found = {}
         THEN LET user == [id |-> d.next.user,
                           apple_user_id |-> dev_apple_user_id(email),
                           email |-> email, teacher_id |-> Null]
                  pending == [d EXCEPT !.users = @ \cup {user},
                                       !.next.user = @ + 1]
              IN  {Commit(d, pending, Reply("dev_login", "ok", user.id))}
         ELSE {IF user.apple_user_id = Null
               THEN Commit(d,
                      [d EXCEPT !.users = (@ \ {user}) \cup
                         {[user EXCEPT !.apple_user_id = dev_apple_user_id(email)]}],
                      Reply("dev_login", "ok", user.id))
               ELSE Ok(d, "dev_login", user.id) : user \in found}

\* main.py 101-110: what authenticate_with_apple answers when the identity
\* token is not verified.
AppleVerifyFailed(d, id_token) ==
    IF id_token.verdict = "invalid"
    THEN {[db |-> d,
           reply |-> [Reply("apple", "unauthenticated", Null)
                        EXCEPT !.detail = "Authentication failed"]]}
    ELSE {[db |-> d,
           reply |-> [Reply("apple", "unavailable", Null)
                        EXCEPT !.detail = "Authentication service unavailable"]]}

\* A sign-in that never looks for the address: every unknown subject is a
\* new user.
authenticate_with_apple_always_creates(d, id_token) ==
    IF id_token.verdict # "verified" THEN AppleVerifyFailed(d, id_token)
    ELSE
    LET apple_user_id == id_token.sub
        email == IF id_token.email = Null
                 THEN privaterelay_email(apple_user_id) ELSE id_token.email
        by_apple == {u \in d.users : u.apple_user_id = apple_user_id}
        user == [id |-> d.next.user, apple_user_id |-> apple_user_id,
                 email |-> email, teacher_id |-> Null]
    IN  IF by_apple # {}
        THEN {Ok(d, "apple", u.id) : u \in by_apple}
        ELSE {Commit(d, [d EXCEPT !.users = @ \cup {user}, !.next.user = @ + 1],
                     Reply("apple", "ok", user.id))}

\* main.py 94-142: authenticate_with_apple.
authenticate_with_apple(d, id_token) ==
    IF id_token.verdict # "verified" THEN AppleVerifyFailed(d, id_token)
    ELSE LET apple_user_id == id_token.sub
             email == IF id_token.email = Null
                      THEN privaterelay_email(apple_user_id) ELSE id_token.email
             by_apple == {u \in d.users : u.apple_user_id = apple_user_id}
             by_email == {u \in d.users : u.email = email}
         IN  IF by_apple # {}
             THEN {Ok(d, "apple", u.id) : u \in by_apple}
             ELSE IF by_email # {}
             THEN {Commit(d,
                     [d EXCEPT !.users = (@ \ {user}) \cup
                        {[user EXCEPT !.apple_user_id = apple_user_id]}],
                     Reply("apple", "ok", user.id)) : user \in by_email}
             ELSE LET user == [id |-> d.next.user,
                               apple_user_id |-> apple_user_id,
                               email |-> email, teacher_id |-> Null]
                  IN  {Commit(d, [d EXCEPT !.users = @ \cup {user},
                                           !.next.user = @ + 1],
                              Reply("apple", "ok", user.id))}

(***************************************************************************)
(* Video submissions and their messages (main.py 1229-1557).               *)
(*                                                                         *)
(* Object-store keys are numbers, a range per kind of key; a presigned URL *)
(* is a number per key, a range per kind of URL.  s3_ok says whether the   *)
(* object store answers the calls of the request (s3.py: a ClientError is  *)
(* raised again as Exception, which the handlers do not catch).            *)
(***************************************************************************)
\* s3.get_video_s3_key: "<prefix>cadenza/videos/<user_id>/<submission_id>.mp4"
get_video_s3_key(user_id, submission_id) == 2000 + 100 * user_id + submission_id

\* s3.get_video_thumbnail_s3_key: ".../<submission_id>_thumb.jpg"
get_video_thumbnail_s3_key(user_id, submission_id) ==
    3000 + 100 * user_id + submission_id

\* The key of a message's video, by sender and message.
get_message_s3_key(user_id, message_id) == 4000 + 100 * user_id + message_id

\* The key of a message's thumbnail, by sender and message.
get_message_thumbnail_s3_key(user_id, message_id) ==
    6000 + 100 * user_id + message_id

\* s3.generate_video_upload_url, generate_video_thumbnail_upload_url and the
\* two for messages: generate_presigned_url("put_object", Key=<the key>), a
\* URL per key; these URLs are the numbers from 40000 on.
generate_upload_url(s3_key) == 40000 + s3_key

\* The answer with upload URLs (upload_url, thumbnail_upload_url; Null: none).
WithUrls(reply, row, upload_url, thumbnail_upload_url) ==
    [reply EXCEPT !.row = row, !.upload_url = upload_url,
                  !.thumbnail_upload_url = thumbnail_upload_url]

\* main.py 1229-1277: create_video_submission.  The row is committed before
\* the upload URLs are made.
create_video_submission(d, c, submission, s3_ok) ==
    IF /\ submission.exercise_id = Null
       /\ submission.piece_id = Null
       /\ submission.session_id = Null
    THEN {Fail(d, "create_submission", "unprocessable", c)}
    ELSE LET submission_id == d.next.submission
             video_submission ==
               [id |-> submission_id, user_id |-> c,
                exercise_id |-> submission.exercise_id,
                piece_id |-> submission.piece_id,
                session_id |-> submission.session_id,
                s3_key |-> get_video_s3_key(c, submission_id),
                thumbnail_s3_key |-> get_video_thumbnail_s3_key(c, submission_id),
                duration_seconds |-> submission.duration_seconds,
                reviewed_at |-> Null, reviewed_by_id |-> Null,
                created_at |-> now]
             pending == [d EXCEPT !.submissions = @ \cup {video_submission},
                                  !.next.submission = @ + 1]
             committed ==
               Commit(d, pending, Reply("create_submission", "ok", c))
         IN  IF committed.reply.status # "ok" THEN {committed}
             ELSE IF ~s3_ok
             THEN {Fail(committed.db, "create_submission", "server_error", c)}
             ELSE {[db |-> committed.db,
                    reply |-> WithUrls(committed.reply, submission_id,
                       generate_upload_url(video_submission.s3_key),
                       generate_upload_url(video_submission.thumbnail_s3_key))]}

\* The rows of a table, latest first (order_by(created_at.desc())).
LatestFirst(rows) ==
    {f \in Perms(rows) :
        \A i, j \in 1..Len(f) : i < j => f[i].created_at >= f[j].created_at}

\* order_by(created_at.asc())
OldestFirst(rows) ==
    {f \in Perms(rows) :
        \A i, j \in 1..Len(f) : i < j => f[i].created_at <= f[j].created_at}

\* main.py 1337-1376: get_student_video_submissions (the piece_id and
\* exercise_id filters not given).
get_student_video_submissions(d, c, student_id, pending_review) ==
    IF ~Has(d.users, student_id)
    THEN {Fail(d, "student_submissions", "not_found", c)}
    ELSE IF Row(d.users, student_id).teacher_id # c
    THEN {Fail(d, "student_submissions", "forbidden", c)}
    ELSE LET rows == {v \in d.submissions :
                        /\ v.user_id = student_id
                        /\ pending_review => v.reviewed_at = Null}
         IN  {[db |-> d,
               reply |-> [Reply("student_submissions", "ok", c)
                            EXCEPT !.list = IdsIn(f)]] : f \in LatestFirst(rows)}

\* A review that asks only that the caller is somebody's teacher.
mark_reviewed_by_any_teacher(d, c, submission_id) ==
    IF ~Has(d.submissions, submission_id)
    THEN {Fail(d, "mark_reviewed", "not_found", c)}
    ELSE LET submission == Row(d.submissions, submission_id) IN
         IF \A u \in d.users : u.teacher_id # c
         THEN {Fail(d, "mark_reviewed", "forbidden", c)}
         ELSE LET reviewed == [submission EXCEPT !.reviewed_at = now,
                                                 !.reviewed_by_id = c]
                  pending == [d EXCEPT !.submissions =
                                          (@ \ {submission}) \cup {reviewed}]
              IN  {Commit(d, pending,
                          [Reply("mark_reviewed", "ok", c)
                             EXCEPT !.row = submission_id])}

\* A review that makes a reviewed submission pending again.
mark_reviewed_toggles(d, c, submission_id) ==
    IF ~Has(d.submissions, submission_id)
    THEN {Fail(d, "mark_reviewed", "not_found", c)}
    ELSE LET submission == Row(d.submissions, submission_id) IN
         IF ~Has(d.users, submission.user_id)
         THEN {Fail(d, "mark_reviewed", "not_found", c)}
         ELSE IF Row(d.users, submission.user_id).teacher_id # c
         THEN {Fail(d, "mark_reviewed", "forbidden", c)}
         ELSE LET reviewed ==
                    IF submission.reviewed_at # Null
                    THEN [submission EXCEPT !.reviewed_at = Null,
                                            !.reviewed_by_id = Null]
                    ELSE [submission EXCEPT !.reviewed_at = now,
                                            !.reviewed_by_id = c]
                  pending == [d EXCEPT !.submissions =
                                          (@ \ {submission}) \cup {reviewed}]
              IN  {Commit(d, pending,
                          [Reply("mark_reviewed", "ok", c)
                             EXCEPT !.row = submission_id])}

\* main.py 1379-1408: mark_video_submission_reviewed.
mark_video_submission_reviewed(d, c, submission_id) ==
    IF ~Has(d.submissions, submission_id)
    THEN {Fail(d, "mark_reviewed", "not_found", c)}
    ELSE LET submission == Row(d.submissions, submission_id) IN
         IF ~Has(d.users, submission.user_id)
         THEN {Fail(d, "mark_reviewed", "not_found", c)}
         ELSE IF Row(d.users, submission.user_id).teacher_id # c
         THEN {Fail(d, "mark_reviewed", "forbidden", c)}
         ELSE LET reviewed == [submission EXCEPT !.reviewed_at = now,
                                                 !.reviewed_by_id = c]
                  pending == [d EXCEPT !.submissions =
                                          (@ \ {submission}) \cup {reviewed}]
              IN  {Commit(d, pending,
                          [Reply("mark_reviewed", "ok", c)
                             EXCEPT !.row = submission_id])}

\* IsParticipant that also lets in the teacher who reviewed the submission.
IsParticipantOrReviewer(d, c, submission) ==
    \/ submission.user_id = c
    \/ submission.reviewed_by_id = c
    \/ /\ Has(d.users, submission.user_id)
       /\ Row(d.users, submission.user_id).teacher_id = c

\* main.py 1466-1471, 1498-1503: the caller is the submission's owner or the
\* owner's teacher.
IsParticipant(d, c, submission) ==
    \/ submission.user_id = c
    \/ /\ Has(d.users, submission.user_id)
       /\ Row(d.users, submission.user_id).teacher_id = c

\* main.py 1451-1478: list_submission_messages.
list_submission_messages(d, c, submission_id) ==
    IF ~Has(d.submissions, submission_id)
    THEN {Fail(d, "list_messages", "not_found", c)}
    ELSE LET submission == Row(d.submissions, submission_id) IN
         IF ~IsParticipant(d, c, submission)
         THEN {Fail(d, "list_messages", "forbidden", c)}
         ELSE LET rows == {m \in d.messages : m.submission_id = submission.id}
              IN  {[db |-> d,
                    reply |-> [Reply("list_messages", "ok", c)
                                 EXCEPT !.list = IdsIn(f)]]
                     : f \in OldestFirst(rows)}

\* The texts of a message body: none, the empty string, blanks only, and
\* text with blanks around it.
Texts == {NullStr, "", "  ", " Nice "}

\* str.strip()
strip(text) ==
    IF text = "  " THEN ""
    ELSE IF text = " Nice " THEN "Nice"
    ELSE text

\* main.py 1494-1557: create_submission_message from the authorization check
\* on, for the outcome of that check (may_message) and the text it keeps.
CreateMessage(d, c, submission_id, message, s3_ok, may_message, text) ==
    IF ~Has(d.submissions, submission_id)
    THEN {Fail(d, "create_message", "not_found", c)}
    ELSE LET submission == Row(d.submissions, submission_id) IN
         IF ~may_message
         THEN {Fail(d, "create_message", "forbidden", c)}
         ELSE LET include_video == message.include_video IN
              IF text \in {NullStr, ""} /\ ~include_video
              THEN {Fail(d, "create_message", "unprocessable", c)}
              ELSE IF include_video /\ message.video_duration_seconds = Null
              THEN {Fail(d, "create_message", "unprocessable", c)}
              ELSE
              LET message_id == d.next.message
                  submission_message ==
                    [id |-> message_id, submission_id |-> submission.id,
                     sender_id |-> c, text |-> text,
                     video_s3_key |->
                        IF include_video THEN get_message_s3_key(c, message_id)
                        ELSE Null,
                     video_duration_seconds |->
                        IF include_video THEN message.video_duration_seconds
                        ELSE Null,
                     thumbnail_s3_key |->
                        IF include_video
                        THEN get_message_thumbnail_s3_key(c, message_id)
                        ELSE Null,
                     created_at |-> now]
                  pending == [d EXCEPT !.messages = @ \cup {submission_message},
                                       !.next.message = @ + 1]
                  committed ==
                    Commit(d, pending, Reply("create_message", "ok", c))
              IN  IF committed.reply.status # "ok" THEN {committed}
                  ELSE IF ~include_video
                  THEN {[db |-> committed.db,
                         reply |-> WithUrls(committed.reply, message_id,
                                            Null, Null)]}
                  ELSE IF ~s3_ok
                  THEN {Fail(committed.db, "create_message", "server_error", c)}
                  ELSE {[db |-> committed.db,
                         reply |-> WithUrls(committed.reply, message_id,
                            generate_upload_url(submission_message.video_s3_key),
                            generate_upload_url(submission_message.thumbnail_s3_key))]}

\* main.py 1505: message.text.strip() if message.text else None
StrippedText(message) ==
    IF message.text \in {NullStr, ""} THEN NullStr ELSE strip(message.text)

\* A message handler open to every signed-in user.
create_message_by_anyone(d, c, submission_id, message, s3_ok) ==
    CreateMessage(d, c, submission_id, message, s3_ok, TRUE,
                  StrippedText(message))

\* A message handler that takes blanks for text.
create_message_unstripped(d, c, submission_id, message, s3_ok) ==
    CreateMessage(d, c, submission_id, message, s3_ok,
                  Has(d.submissions, submission_id)
                     => IsParticipant(d, c, Row(d.submissions, submission_id)),
                  message.text)

\* main.py 1481-1557: create_submission_message.
create_submission_message(d, c, submission_id, message, s3_ok) ==
    CreateMessage(d, c, submission_id, message, s3_ok,
                  Has(d.submissions, submission_id)
                     => IsParticipant(d, c, Row(d.submissions, submission_id)),
                  StrippedText(message))

(***************************************************************************)
(* The state machine.                                                      *)
(***************************************************************************)
\* Two users who have signed in (ids and addresses 1 and 2), empty tables.
EmptyDb ==
    [users |-> {[id |-> u, apple_user_id |-> u, email |-> u, teacher_id |-> Null]
                  : u \in 1..2},
     pieces |-> {}, routines |-> {}, exercises |-> {}, assignments |-> {},
     psessions |-> {}, esessions |-> {}, submissions |-> {}, messages |-> {},
     objects |-> {},
     next |-> [user |-> 3, piece |-> 1, routine |-> 1, exercise |-> 1,
               assignment |-> 1, psession |-> 1, esession |-> 1,
               submission |-> 1, message |-> 1]]

\* The state after user 1 created pieces 1 and 2, routine 1 with exercises 1
\* and 2 on piece 1 and exercise 3 on piece 2, and routine 2 with exercise 4
\* on piece 1 (create_piece, create_routine, add_exercise_to_routine), and
\* user 2 named user 1 as teacher (set_teacher).
SeedExercise(id, routine_id, piece_id, params) ==
    [id |-> id, routine_id |-> routine_id, piece_id |-> piece_id,
     order_index |-> params.order_index,
     recommended_time_seconds |-> params.recommended_time_seconds,
     intentions |-> params.intentions, start_page |-> params.start_page]

Plain == CHOOSE x \in ExerciseCreates : x.order_index = 0

Timed == CHOOSE x \in ExerciseCreates : x.order_index = 1

StudioDb ==
    [EmptyDb EXCEPT
       !.users = {[id |-> 1, apple_user_id |-> 1, email |-> 1, teacher_id |-> Null],
                  [id |-> 2, apple_user_id |-> 2, email |-> 2, teacher_id |-> 1]},
       !.pieces = {[id |-> p, owner_id |-> 1, title |-> "Scales",
                    pdf_filename |-> "upload.pdf", s3_key |-> get_piece_s3_key(p),
                    shared_from_piece_id |-> Null] : p \in 1..2},
       !.routines = {[id |-> r, owner_id |-> 1, title |-> "Scales",
                      description |-> NullStr, assigned_by_id |-> Null,
                      assigned_at |-> Null, shared_from_routine_id |-> Null]
                       : r \in 1..2},
       !.exercises = {SeedExercise(1, 1, 1, Plain), SeedExercise(2, 1, 1, Timed),
                      SeedExercise(3, 1, 2, Timed), SeedExercise(4, 2, 1, Plain)},
       !.objects = {get_piece_s3_key(p) : p \in 1..2},
       !.next = [@ EXCEPT !.piece = 3, !.routine = 3, !.exercise = 5]]

NoTx == [pc |-> "idle"]

Init ==
    /\ db \in {EmptyDb, StudioDb}
    /\ last = Reply("none", "ok", Null)
    /\ tx = NoTx
    /\ now = 1
    /\ requests = 0
    /\ settings = Settings("dev")
    /\ jwks_cache = NoKeys

\* A request handled from start to end: one outcome of the handler.  last is
\* the reply to it; a behaviour has at most MaxRequests requests that change
\* the database, and the clock has moved on after each of them.
Serve(out, reply) ==
    /\ out.db # db => requests < MaxRequests
    /\ db' = out.db
    /\ last' = reply
    /\ requests' = IF out.db = db THEN requests ELSE requests + 1
    /\ now' = IF out.db = db THEN now ELSE now + 1
    /\ tx' = tx
    /\ settings' = settings
    /\ jwks_cache' = jwks_cache

Handle(outcomes) == \E out \in outcomes : Serve(out, out.reply)

\* The same for a request whose reply no property reads: last keeps no more
\* of it than that it was made, and none is made once MaxRequests requests
\* have changed the database (it could change nothing but last).
Quiet == Reply("other", "ok", Null)

HandleQuietly(outcomes) == \E out \in outcomes : Serve(out, Quiet)

CreatePiece ==
    /\ requests < MaxRequests
    /\ \E c \in Callers(db) : HandleQuietly(create_piece(db, c, "Scales", "upload.pdf"))

UpdatePiece ==
    /\ requests < MaxRequests
    /\ \E c \in Callers(db), p \in IdsOrUnknown(db.pieces), title \in Titles :
        HandleQuietly(update_piece(db, c, p, title))

DeletePiece ==
    /\ requests < MaxRequests
    /\ \E c \in Callers(db), p \in IdsOrUnknown(db.pieces) :
        HandleQuietly(delete_piece(db, c, p))

SharePiece ==
    /\ requests < MaxRequests
    /\ \E c \in Callers(db), p \in IdsOrUnknown(db.pieces), s \in IdsOrUnknown(db.users) :
        HandleQuietly(share_piece_with_student(db, c, p, s))

SetTeacher ==
    /\ requests < MaxRequests
    /\ \E c \in Callers(db), e \in Emails : HandleQuietly(set_teacher(db, c, e))

RemoveTeacher ==
    /\ requests < MaxRequests
    /\ \E c \in Callers(db) : HandleQuietly(remove_teacher(db, c))

CreateRoutine ==
    /\ requests < MaxRequests
    /\ \E c \in Callers(db) : HandleQuietly(create_routine(db, c, "Scales", NullStr))

DeleteRoutine ==
    /\ requests < MaxRequests
    /\ \E c \in Callers(db), r \in IdsOrUnknown(db.routines) :
        HandleQuietly(delete_routine(db, c, r))

AddExercise ==
    /\ requests < MaxRequests
    /\ \E c \in Callers(db), r \in IdsOrUnknown(db.routines),
       p \in IdsOrUnknown(db.pieces), params \in ExerciseCreates :
        HandleQuietly(add_exercise_to_routine(db, c, r, p, params))

DeleteExercise ==
    /\ requests < MaxRequests
    /\ \E c \in Callers(db), r \in IdsOrUnknown(db.routines),
       e \in IdsOrUnknown(db.exercises) :
        HandleQuietly(delete_exercise(db, c, r, e))

AssignRoutine ==
    \E c \in Callers(db), s \in IdsOrUnknown(db.users), r \in IdsOrUnknown(db.routines) :
        Handle(assign_routine_to_student(db, c, s, r))

Next ==
    \/ CreatePiece
    \/ UpdatePiece
    \/ DeletePiece
    \/ SharePiece
    \/ SetTeacher
    \/ RemoveTeacher
    \/ CreateRoutine
    \/ DeleteRoutine
    \/ AddExercise
    \/ DeleteExercise
    \/ AssignRoutine

Spec == Init /\ [][Next]_vars

(***************************************************************************)
(* The assignment request statement by statement (specification SpecTx).   *)
(* tx is the request's session: tx.st.db is what the session has flushed,  *)
(* db is what is committed.  The request may raise between any two         *)
(* statements; get_db then leaves its `with Session(engine)` block and the *)
(* session is closed without a commit.                                     *)
(***************************************************************************)
\* Lines 771-812: the checks pass, the routine copy is flushed.
TxBegin ==
    /\ tx.pc \in {"idle", "rolled_back"}
    /\ \E c \in Callers(db), s \in UserIds(db), r \in {x.id : x \in db.routines} :
          /\ AssignCheck(db, c, s, r) = "ok"
          /\ \E original_exercises \in OrderedExercises(db, r) :
                tx' = [pc |-> "copying", c |-> c, student_id |-> s,
                       routine_id |-> r,
                       st |-> AssignBegin(db, c, s, Row(db.routines, r)),
                       todo |-> original_exercises]
    /\ UNCHANGED <<db, last, now, requests, settings, jwks_cache>>

\* Lines 814-858: one turn of the loop.
TxCopy ==
    /\ tx.pc = "copying" /\ tx.todo # <<>>
    /\ \E st \in AssignStep(tx.st, tx.student_id, Head(tx.todo)) :
          tx' = [tx EXCEPT !.st = st, !.todo = Tail(@)]
    /\ UNCHANGED <<db, last, now, requests, settings, jwks_cache>>

\* Lines 860-868: the previous assignment is deleted and the delete flushed.
TxDelete ==
    /\ tx.pc = "copying" /\ tx.todo = <<>>
    /\ \E st \in DeleteExistingAssignment(tx.st, tx.student_id) :
          tx' = [tx EXCEPT !.st = st, !.pc = "deleted"]
    /\ UNCHANGED <<db, last, now, requests, settings, jwks_cache>>

\* Lines 870-883: the new assignment and the commit.
TxCommit ==
    /\ tx.pc = "deleted"
    /\ LET st == InsertAssignment(tx.st, tx.c, tx.student_id)
           out == Commit(db, st.db,
                         AssignReply(st, tx.c, tx.student_id, tx.routine_id))
       IN  /\ out.db # db => requests < MaxRequests
           /\ db' = out.db
           /\ last' = out.reply
           /\ requests' = IF out.db = db THEN requests ELSE requests + 1
           /\ now' = IF out.db = db THEN now ELSE now + 1
    /\ tx' = NoTx
    /\ settings' = settings
    /\ jwks_cache' = jwks_cache

\* An exception in the request after the copying started.
TxRaise ==
    /\ tx.pc \in {"copying", "deleted"}
    /\ db' = Rollback(db, tx.st)
    /\ last' = Reply("assign", "server_error", Null)
    /\ tx' = [tx EXCEPT !.pc = "rolled_back"]
    /\ UNCHANGED <<now, requests, settings, jwks_cache>>

NextTx == TxBegin \/ TxCopy \/ TxDelete \/ TxCommit \/ TxRaise

SpecTx == Init /\ [][NextTx]_vars

(***************************************************************************)
(* Editing a routine's exercises (specification SpecRoutine).              *)
(***************************************************************************)
\* schemas.RoutineReorder: lists, no longer than the routine, of ids of this
\* or another routine's exercises or of none, with or without repeats.
ReorderLists(d, routine_id) ==
    UNION {[1..n -> IdsOrUnknown(d.exercises)]
              : n \in 0..Cardinality(ExercisesOf(d, routine_id))}

\* schemas.ExerciseUpdate: the bodies the model sends.
ExerciseUpdates ==
    {[order_index |-> 2, recommended_time_seconds |-> Null,
      intentions |-> NullStr, start_page |-> Null],
     [order_index |-> Null, recommended_time_seconds |-> 600,
      intentions |-> "slowly", start_page |-> Null]}

UpdateExercise ==
    /\ requests < MaxRequests
    /\ \E c \in Callers(db), r \in IdsOrUnknown(db.routines),
          e \in IdsOrUnknown(db.exercises), upd \in ExerciseUpdates :
          HandleQuietly(update_exercise(db, c, r, e, upd))

\* The reply is remembered with the caller and the routine of the request.
ReorderExercises ==
    /\ requests < MaxRequests
    /\ \E c \in Callers(db), r \in IdsOrUnknown(db.routines) :
       \E exercise_ids \in ReorderLists(db, r) :
       \E out \in reorder_exercises(db, c, r, exercise_ids) :
          Serve(out, [out.reply EXCEPT !.caller = c, !.routine = r])

GetRoutine ==
    /\ \E c \in Callers(db), r \in IdsOrUnknown(db.routines) :
          \E got \in get_routine(db, c, r) :
             last' = [Reply("get_routine", got.status, c) EXCEPT
                         !.routine = r, !.list = IdsIn(got.exercises)]
    /\ UNCHANGED <<db, tx, now, requests, settings, jwks_cache>>

NextRoutine ==
    \/ UpdateExercise
    \/ ReorderExercises
    \/ GetRoutine

SpecRoutine == Init /\ [][NextRoutine]_vars

(***************************************************************************)
(* Practising (specification SpecPractice).                                *)
(***************************************************************************)
\* StudioDb after user 1 started session 1 on routine 1 and completed
\* exercise 1 in it (start_practice_session, complete_exercise_in_session).
PracticeDb ==
    [StudioDb EXCEPT
       !.psessions = {[id |-> 1, user_id |-> 1, routine_id |-> 1, started_at |-> 0,
                       completed_at |-> Null, duration_seconds |-> Null]},
       !.esessions = {[id |-> 1, session_id |-> 1, exercise_id |-> 1,
                       completed_at |-> 0, actual_time_seconds |-> 60,
                       reflections |-> "warm-up"]},
       !.next = [@ EXCEPT !.psession = 2, !.esession = 2]]

InitPractice ==
    /\ db \in {StudioDb, PracticeDb}
    /\ last = Reply("none", "ok", Null)
    /\ tx = NoTx
    /\ now = 1
    /\ requests = 0
    /\ settings = Settings("dev")
    /\ jwks_cache = NoKeys

\* The bodies the model sends: each field absent or present, reflections
\* also present as null.
Bodies(is_completes) ==
    {Body(is_complete, fields_set, actual_time_seconds, reflections) :
        is_complete \in is_completes,
        fields_set \in SUBSET {"actual_time_seconds", "reflections"},
        actual_time_seconds \in {120, 180},
        reflections \in {NullStr, "good"}}

StartSession ==
    /\ requests < MaxRequests
    /\ \E c \in Callers(db), r \in IdsOrUnknown(db.routines) :
          HandleQuietly(start_practice_session(db, c, r))

CompleteSession ==
    /\ requests < MaxRequests
    /\ \E c \in Callers(db), s \in IdsOrUnknown(db.psessions) :
          HandleQuietly(complete_practice_session(db, c, s))

\* A reply that is no error is remembered with the body of its request.
CompleteExercise ==
    /\ requests < MaxRequests
    /\ \E c \in Callers(db), s \in IdsOrUnknown(db.psessions),
          e \in IdsOrUnknown(db.exercises), exercise_session \in Bodies({TRUE}) :
          \E out \in complete_exercise_in_session(db, c, s, e, exercise_session) :
             Serve(out, IF out.reply.status = "ok"
                        THEN [out.reply EXCEPT !.payload = exercise_session]
                        ELSE out.reply)

ToggleExercise ==
    /\ requests < MaxRequests
    /\ \E c \in Callers(db), s \in IdsOrUnknown(db.psessions),
          e \in IdsOrUnknown(db.exercises), update \in Bodies(BOOLEAN) :
          \E out \in toggle_exercise_completion(db, c, s, e, update) :
             Serve(out, IF out.reply.status = "ok"
                        THEN [out.reply EXCEPT !.payload = update]
                        ELSE out.reply)

NextPractice ==
    \/ StartSession
    \/ CompleteSession
    \/ CompleteExercise
    \/ ToggleExercise

SpecPractice == InitPractice /\ [][NextPractice]_vars

(***************************************************************************)
(* Signing in and authenticating (specification SpecAuth): the deployment  *)
(* is in any environment, users 1 and 2 have signed in with Apple.         *)
(***************************************************************************)
InitAuth ==
    /\ db = EmptyDb
    /\ last = Reply("none", "ok", Null)
    /\ tx = NoTx
    /\ now = 1
    /\ requests = 0
    /\ settings \in {Settings(e) : e \in {"dev", "staging", "prod"}}
    /\ jwks_cache = NoKeys

\* The bearer credentials a client may send.
Tokens(d) ==
    {DevToken(suffix) : suffix \in IdsOrUnknown(d.users) \cup {Null}}
    \cup {JwtToken(signed, expired, sub) :
            signed \in BOOLEAN, expired \in BOOLEAN,
            sub \in IdsOrUnknown(d.users) \cup {Null, NaN}}
    \cup {MalformedToken}

\* The identity tokens a client may send: subject 1 is user 1's, 3 nobody's.
AppleIdTokens ==
    {AppleIdToken("verified", sub, email) : sub \in {1, 3}, email \in {Null, 2, 3}}
    \cup {AppleIdToken("invalid", Null, Null),
          AppleIdToken("unavailable", Null, Null)}

GetMe ==
    \E token \in Tokens(db) :
       \E out \in get_current_user_info(db, settings, token) :
          Serve(out, [out.reply EXCEPT !.credential = token])

DevLogin ==
    /\ requests < MaxRequests
    /\ \E email \in {2, 3} : Handle(dev_login(db, settings, email))

AppleSignIn ==
    \E id_token \in AppleIdTokens :
       \E out \in authenticate_with_apple(db, id_token) :
          Serve(out, [out.reply EXCEPT !.id_token = id_token])

\* set_teacher with an address nobody has leaves a stub user for it.
NameTeacher ==
    /\ requests < MaxRequests
    /\ \E c \in Callers(db), e \in Emails : HandleQuietly(set_teacher(db, c, e))

NextAuth ==
    \/ GetMe
    \/ DevLogin
    \/ AppleSignIn
    \/ NameTeacher

SpecAuth == InitAuth /\ [][NextAuth]_vars

(***************************************************************************)
(* Sharing and editing pieces (specification SpecLibrary): the requests    *)
(* are those of Spec that touch pieces, with the caller and the path       *)
(* parameters of each kept in last (caller, piece, student).               *)
(***************************************************************************)
\* The reply with the request's caller and path parameters.
Asked(reply, c, piece_id, student_id) ==
    [reply EXCEPT !.caller = c, !.piece = piece_id, !.student = student_id]

ShareWithStudent ==
    \E c \in Callers(db), p \in IdsOrUnknown(db.pieces), s \in IdsOrUnknown(db.users) :
       \E out \in share_piece_with_student(db, c, p, s) :
          Serve(out, Asked(out.reply, c, p, s))

RenamePiece ==
    \E c \in Callers(db), p \in IdsOrUnknown(db.pieces) :
       \E out \in update_piece(db, c, p, "Bach") :
          Serve(out, Asked(out.reply, c, p, Null))

RemovePiece ==
    \E c \in Callers(db), p \in IdsOrUnknown(db.pieces) :
       \E out \in delete_piece(db, c, p) :
          Serve(out, Asked(out.reply, c, p, Null))

DownloadUrl ==
    \E c \in Callers(db), p \in IdsOrUnknown(db.pieces) :
       \E out \in get_piece_download_url(db, c, p) :
          Serve(out, Asked(out.reply, c, p, Null))

InitLibrary ==
    /\ db = StudioDb
    /\ last = Reply("none", "ok", Null)
    /\ tx = NoTx
    /\ now = 1
    /\ requests = 0
    /\ settings = Settings("dev")
    /\ jwks_cache = NoKeys

NextLibrary ==
    \/ ShareWithStudent
    \/ RenamePiece
    \/ RemovePiece
    \/ DownloadUrl
    \/ AssignRoutine

SpecLibrary == InitLibrary /\ [][NextLibrary]_vars

(***************************************************************************)
(* Video feedback (specification SpecFeedback): user 2 is the student of   *)
(* user 1; each of them has submitted a video of piece 1, and the teacher  *)
(* has written to the student's.                                           *)
(***************************************************************************)
FeedbackDb ==
    [StudioDb EXCEPT
       !.submissions =
          {[id |-> v, user_id |-> 3 - v, exercise_id |-> Null, piece_id |-> 1,
            session_id |-> Null, s3_key |-> get_video_s3_key(3 - v, v),
            thumbnail_s3_key |-> get_video_thumbnail_s3_key(3 - v, v),
            duration_seconds |-> 30, reviewed_at |-> Null,
            reviewed_by_id |-> Null, created_at |-> 0] : v \in 1..2},
       !.messages =
          {[id |-> 1, submission_id |-> 1, sender_id |-> 1, text |-> "Nice",
            video_s3_key |-> Null, video_duration_seconds |-> Null,
            thumbnail_s3_key |-> Null, created_at |-> 0]},
       !.next = [@ EXCEPT !.submission = 3, !.message = 2]]

InitFeedback ==
    /\ db = FeedbackDb
    /\ last = Reply("none", "ok", Null)
    /\ tx = NoTx
    /\ now = 1
    /\ requests = 0
    /\ settings = Settings("dev")
    /\ jwks_cache = NoKeys

\* The reply with the caller and the submission of the request.
AskedOf(reply, c, submission_id) ==
    [reply EXCEPT !.caller = c, !.submission = submission_id]

CreateSubmission ==
    /\ requests < MaxRequests
    /\ \E c \in Callers(db), piece_id \in {Null, 1}, s3_ok \in BOOLEAN :
          \E out \in create_video_submission(db, c,
                        [exercise_id |-> Null, piece_id |-> piece_id,
                         session_id |-> Null, duration_seconds |-> 30], s3_ok) :
             Serve(out, AskedOf(out.reply, c, Null))

MarkReviewed ==
    /\ requests < MaxRequests
    /\ \E c \in Callers(db), v \in IdsOrUnknown(db.submissions) :
          \E out \in mark_video_submission_reviewed(db, c, v) :
             Serve(out, AskedOf(out.reply, c, v))

StudentSubmissions ==
    /\ requests < MaxRequests
    /\ \E c \in Callers(db), s \in IdsOrUnknown(db.users), pending_review \in BOOLEAN :
          \E out \in get_student_video_submissions(db, c, s, pending_review) :
             Serve(out, [out.reply EXCEPT !.caller = c, !.student = s])

ListMessages ==
    /\ requests < MaxRequests
    /\ \E c \in Callers(db), v \in IdsOrUnknown(db.submissions) :
          \E out \in list_submission_messages(db, c, v) :
             Serve(out, AskedOf(out.reply, c, v))

\* The message bodies a client may send (schemas.MessageCreate).
Messages ==
    [text : Texts, include_video : BOOLEAN, video_duration_seconds : {Null, 30}]

SendMessage ==
    /\ requests < MaxRequests
    /\ \E c \in Callers(db), v \in IdsOrUnknown(db.submissions),
          message \in Messages, s3_ok \in BOOLEAN :
          \E out \in create_submission_message(db, c, v, message, s3_ok) :
             Serve(out, AskedOf(out.reply, c, v))

\* The student leaves the teacher (remove_teacher).
LeaveTeacher ==
    /\ requests < MaxRequests
    /\ \E c \in Callers(db) : HandleQuietly(remove_teacher(db, c))

NextFeedback ==
    \/ CreateSubmission
    \/ MarkReviewed
    \/ StudentSubmissions
    \/ ListMessages
    \/ SendMessage
    \/ LeaveTeacher

SpecFeedback == InitFeedback /\ [][NextFeedback]_vars

(***************************************************************************)
(* apple_auth.py: verify_apple_id_token, statement by statement            *)
(* (specification SpecApple).  tx is the call in progress: the key id of   *)
(* the token's header (Null: the header has none), whether jwt.decode      *)
(* accepts the token, the calls of get_apple_public_keys and of            *)
(* _fetch_apple_public_keys made so far and the keys the first call        *)
(* answered.  last.status is how the call ended: "verified" (the payload   *)
(* is returned), "invalid" (InvalidTokenError) or "unavailable" (any other *)
(* exception), as main.py 101-110 tells them apart.                        *)
(***************************************************************************)
NoVerify ==
    [pc |-> "idle", kid |-> Null, genuine |-> FALSE, lookups |-> 0, fetches |-> 0,
     first |-> {}]

InitApple ==
    /\ db = EmptyDb
    /\ last = Reply("none", "ok", Null)
    /\ tx = NoVerify
    /\ now = 1
    /\ requests = 0
    /\ settings = Settings("prod")
    /\ jwks_cache \in {NoKeys, [held |-> TRUE, keys |-> {1}]}

\* Apple serves key 1, or keys 1 and 2 once it has rotated; or the fetch fails.
FetchOutcomes ==
    {Fetched("none", {1}), Fetched("none", {1, 2}),
     Fetched("HTTPError", {}), Fetched("ValueError", {})}

VerifyEnds(status) ==
    /\ last' = Reply("verify_apple_id_token", status, Null)
    /\ UNCHANGED <<db, now, requests, settings>>

\* Lines 48-49: jwt.get_unverified_header raises DecodeError, an
\* InvalidTokenError, on a token that has no readable header.
VerifyBegin ==
    /\ tx.pc \in {"idle", "done"}
    /\ requests < MaxRequests
    /\ requests' = requests + 1
    /\ \E readable \in BOOLEAN, kid \in {Null, 1, 2, 3}, genuine \in BOOLEAN :
          IF readable
          THEN /\ tx' = [NoVerify EXCEPT !.pc = "lookup", !.kid = kid,
                                         !.genuine = genuine]
               /\ last' = Reply("verify_apple_id_token", "running", Null)
          ELSE /\ tx' = [NoVerify EXCEPT !.pc = "done"]
               /\ last' = Reply("verify_apple_id_token", "invalid", Null)
    /\ UNCHANGED <<db, now, settings, jwks_cache>>

\* Lines 51-57: get_apple_public_keys() and _public_key_for_kid, and the
\* same once more with force_refresh=True when the key id is not found.
VerifyLookup ==
    /\ tx.pc \in {"lookup", "refresh"}
    /\ \E fetched \in FetchOutcomes :
          LET got == get_apple_public_keys(jwks_cache, tx.pc = "refresh", fetched)
              counted == [tx EXCEPT !.lookups = @ + 1, !.fetches = @ + got.fetches,
                                    !.first = IF tx.pc = "lookup" THEN got.keys ELSE @]
              found == tx.kid # Null /\ tx.kid \in got.keys
          IN  /\ jwks_cache' = got.cache
              /\ IF got.raised # "none"
                 THEN tx' = [counted EXCEPT !.pc = "done"] /\ VerifyEnds("unavailable")
                 ELSE IF found
                 THEN tx' = [counted EXCEPT !.pc = "decode"] /\ UNCHANGED <<db, last, now, requests, settings>>
                 ELSE IF tx.pc = "lookup"
                 THEN tx' = [counted EXCEPT !.pc = "refresh"] /\ UNCHANGED <<db, last, now, requests, settings>>
                 ELSE tx' = [counted EXCEPT !.pc = "done"] /\ VerifyEnds("invalid")

\* Lines 59-65: jwt.decode checks signature, expiry, audience and issuer.
VerifyDecode ==
    /\ tx.pc = "decode"
    /\ tx' = [tx EXCEPT !.pc = "done"]
    /\ VerifyEnds(IF tx.genuine THEN "verified" ELSE "invalid")
    /\ UNCHANGED jwks_cache

\* Line 14: the cached entry is dropped an hour (ttl=3600) after it was set.
CacheExpires ==
    /\ jwks_cache.held
    /\ tx.pc # "idle"
    /\ jwks_cache' = NoKeys
    /\ UNCHANGED <<db, last, tx, now, requests, settings>>

NextApple ==
    \/ VerifyBegin
    \/ VerifyLookup
    \/ VerifyDecode
    \/ CacheExpires

\* A call that has begun goes on: the statements are synchronous, and
\* httpx.get returns or raises within its timeout.
SpecApple ==
    InitApple /\ [][NextApple]_vars /\ WF_vars(VerifyLookup) /\ WF_vars(VerifyDecode)

(***************************************************************************)
(* Two assignment requests at once (specification SpecRace).  tx is the    *)
(* request that commits last, statement by statement as in SpecTx; the     *)
(* other request commits while it is in progress.  Until it commits, what  *)
(* a session has flushed is seen by that session only, so the request that *)
(* commits first reads and writes as if it ran alone.  tx.st.db is what    *)
(* the session of tx reads: the committed rows and its own flushed writes. *)
(* Ids are uuid4 values (models.py), never given twice: both sessions draw *)
(* from one counter.                                                       *)
(***************************************************************************)
\* StudioDb after teacher 1 assigned routine 1 to student 2.
AssignedDb ==
    (CHOOSE out \in assign_routine_to_student(StudioDb, 1, 2, 1) :
        out.reply.status = "ok").db

InitRace ==
    /\ now = 1
    /\ db \in {StudioDb, AssignedDb}
    /\ last = Reply("none", "ok", Null)
    /\ tx = NoTx
    /\ requests = 0
    /\ settings = Settings("dev")
    /\ jwks_cache = NoKeys

\* What a session reads once another has committed: the rows committed
\* now, without those it has deleted and with those it has inserted itself.
Rebase(committed, before, view) ==
    [f \in DOMAIN view |->
        IF f \in {"next", "objects"} THEN committed[f]
        ELSE (committed[f] \ (before[f] \ view[f])) \cup (view[f] \ before[f])]

\* main.py 758-883 in the other session: a request for the same student
\* runs to its commit.
ConcurrentAssign ==
    /\ tx.pc \in {"copying", "deleted"}
    /\ requests < MaxRequests
    /\ \E c \in Callers(db), r \in {x.id : x \in db.routines} :
          \E out \in assign_routine_to_student(
                        [db EXCEPT !.next = tx.st.db.next], c, tx.student_id, r) :
             /\ out.reply.status = "ok"
             /\ db' = out.db
             /\ tx' = [tx EXCEPT !.st.db = Rebase(out.db, db, tx.st.db)]
             /\ last' = out.reply
    /\ requests' = requests + 1
    /\ now' = now + 1
    /\ UNCHANGED <<settings, jwks_cache>>

NextRace == NextTx \/ ConcurrentAssign

SpecRace == InitRace /\ [][NextRace]_vars

(***************************************************************************)
(* A studio whose students change teachers (specification SpecStudio):     *)
(* the requests a teacher makes about a student, and the student naming    *)
(* another teacher (set_teacher) or none (remove_teacher).                 *)
(***************************************************************************)
NextStudio ==
    \/ SetTeacher
    \/ LeaveTeacher
    \/ MarkReviewed
    \/ SendMessage
    \/ AssignRoutine
    \/ ShareWithStudent

SpecStudio == InitFeedback /\ [][NextStudio]_vars

(***************************************************************************)
(* Properties of routine assignment (specification Spec).                  *)
(***************************************************************************)
\* The step is a successful assign_routine_to_student (every request writes
\* last, and a successful assignment names its new routine there).
AssignedNow == last'.op = "assign" /\ last'.status = "ok" /\ db' # db

AssignmentsOf(d, student_id) == {a \in d.assignments : a.student_id = student_id}

CopiesOwned(d, student_id, piece_id) ==
    {p \in d.pieces : p.owner_id = student_id /\ p.shared_from_piece_id = piece_id}

SourcePieces(d, routine_id) == {e.piece_id : e \in ExercisesOf(d, routine_id)}

\* C1: after a successful assignment the student has exactly one
\* RoutineAssignment row and it names the routine copy that assignment made
\* (a copy of the routine just assigned); no other request adds, removes or
\* changes an assignment row, so this stays so until the next assignment.
C1_Step ==
    /\ AssignedNow =>
          /\ \E a \in db'.assignments :
                /\ AssignmentsOf(db', last'.student) = {a}
                /\ a.routine_id = last'.new_routine
          /\ ~Has(db.routines, last'.new_routine)
          /\ Has(db'.routines, last'.new_routine)
          /\ Row(db'.routines, last'.new_routine).shared_from_routine_id = last'.routine
          /\ \A s \in UserIds(db) : s # last'.student =>
                AssignmentsOf(db', s) = AssignmentsOf(db, s)
    /\ ~AssignedNow => db'.assignments = db.assignments

C1_OneCurrentAssignment == [][C1_Step]_vars

\* Reached: the student was assigned a copy of one routine and then a copy of
\* another; the one assignment row names the second copy.
C1_Witness ==
    /\ last.op = "assign" /\ last.status = "ok"
    /\ Cardinality(AssignmentsOf(db, last.student)) = 1
    /\ \E old \in db.routines :
          /\ old.owner_id = last.student
          /\ old.assigned_by_id # Null
          /\ old.id # last.new_routine
          /\ old.shared_from_routine_id # last.routine
    /\ \A a \in AssignmentsOf(db, last.student) : a.routine_id = last.new_routine

\* C2: an assignment creates no piece for a student who already owns a copy
\* of that source piece (made by an earlier assignment or by
\* share_piece_with_student), and no two copies of one source piece; when
\* the student already owns a copy of every piece of the routine it creates
\* a new routine and no piece at all.
C2_Step ==
    AssignedNow =>
       LET created == db'.pieces \ db.pieces IN
       /\ \A p \in created :
             /\ p.owner_id = last'.student
             /\ CopiesOwned(db, p.owner_id, p.shared_from_piece_id) = {}
             /\ \A q \in created : q.shared_from_piece_id = p.shared_from_piece_id
                                      => q = p
       /\ (\A sp \in SourcePieces(db, last'.routine) :
              CopiesOwned(db, last'.student, sp) # {})
            => /\ db'.pieces = db.pieces
               /\ Cardinality(db'.routines) = Cardinality(db.routines) + 1

C2_PieceSharingIdempotent == [][C2_Step]_vars

\* Reached: a routine with exercises was assigned again to a student who held
\* copies of all its pieces and a copy of the routine from an earlier
\* assignment.
C2_Witness ==
    /\ last.op = "assign" /\ last.status = "ok" /\ last.pieces_shared = 0
    /\ ExercisesOf(db, last.routine) # {}
    /\ \E old \in db.routines :
          /\ old.owner_id = last.student
          /\ old.id # last.new_routine
          /\ old.shared_from_routine_id = last.routine

\* C3: pieces_shared is the number of distinct pieces of the source routine's
\* exercises of which the student owned no copy before the call.
C3_Step ==
    AssignedNow =>
       last'.pieces_shared =
          Cardinality({sp \in SourcePieces(db, last'.routine) :
                          CopiesOwned(db, last'.student, sp) = {}})

C3_PiecesSharedCount == [][C3_Step]_vars

\* Reached: a routine with two exercises on one piece and one on another was
\* assigned to a student who held a copy of neither: 2 pieces shared for 3
\* exercises.
C3_Witness ==
    /\ last.op = "assign" /\ last.status = "ok"
    /\ last.pieces_shared = 2
    /\ Cardinality(ExercisesOf(db, last.routine)) = 3

\* C3 again, the other end: everything was there already, 0 shared.
C3_WitnessZero ==
    /\ last.op = "assign" /\ last.status = "ok"
    /\ last.pieces_shared = 0
    /\ SourcePieces(db, last.routine) # {}

\* What an exercise asks to practice, and of which source piece.
Practice(e, source_piece_id) ==
    <<e.order_index, e.recommended_time_seconds, e.intentions, e.start_page,
      source_piece_id>>

\* C4: the routine copy is owned by the student, stamped with the caller and
\* the source routine; its exercises are the source's exercises one for one
\* (same order_index, time, intentions, start page), each on a piece the
\* student owns that is a copy of the source exercise's piece.
C4_Step ==
    AssignedNow =>
       LET copy == Row(db'.routines, last'.new_routine)
           source == ExercisesOf(db, last'.routine)
           copied == ExercisesOf(db', last'.new_routine)
           PieceOf(e) == Row(db'.pieces, e.piece_id)
       IN
       /\ copy.owner_id = last'.student
       /\ copy.assigned_by_id = last'.caller
       /\ copy.shared_from_routine_id = last'.routine
       /\ Cardinality(copied) = Cardinality(source)
       /\ \A e \in copied :
             /\ Has(db'.pieces, e.piece_id)
             /\ PieceOf(e).owner_id = last'.student
             /\ PieceOf(e).owner_id # last'.caller
             /\ Cardinality({x \in copied :
                   Practice(x, PieceOf(x).shared_from_piece_id)
                      = Practice(e, PieceOf(e).shared_from_piece_id)})
                = Cardinality({x \in source :
                   Practice(x, x.piece_id)
                      = Practice(e, PieceOf(e).shared_from_piece_id)})
       /\ ExercisesOf(db', last'.routine) = source

C4_RoutineCopy == [][C4_Step]_vars

\* Reached: the copy of a three-exercise routine.
C4_Witness ==
    /\ last.op = "assign" /\ last.status = "ok"
    /\ Cardinality(ExercisesOf(db, last.new_routine)) = 3
    /\ \E e \in ExercisesOf(db, last.new_routine) : e.start_page = 2

\* C5: for an existing student and routine, the call succeeds only if the
\* student's teacher and the routine's owner are the caller; otherwise it is
\* Forbidden; and a call that does not succeed changes no table.
C5_Handler ==
    \A c \in Callers(db), s \in IdsOrUnknown(db.users), r \in IdsOrUnknown(db.routines) :
       \A out \in assign_routine_to_student(db, c, s, r) :
          LET allowed == /\ Has(db.users, s) /\ Row(db.users, s).teacher_id = c
                         /\ Has(db.routines, r) /\ Row(db.routines, r).owner_id = c
          IN  /\ out.reply.status = "ok" => allowed
              /\ (Has(db.users, s) /\ Has(db.routines, r) /\ ~allowed)
                    => out.reply.status = "forbidden"
              /\ out.reply.status # "ok" => out.db = db

C5_Step == (last'.op = "assign" /\ last'.status # "ok") => db' = db

C5_ForbiddenChangesNothing == [](C5_Handler) /\ [][C5_Step]_vars

\* Reached: a teacher whose student left was refused, and the student's
\* assignment from before is still there.
C5_Witness ==
    /\ last.op = "assign" /\ last.status = "forbidden"
    /\ \E a \in db.assignments :
          Row(db.users, a.student_id).teacher_id # a.assigned_by_id

\* C6: an assignment request that fails after it started copying (after the
\* routine copy, after piece or exercise copies, after the delete of the
\* previous assignment) leaves the committed state as it was: none of the
\* new rows, the previous assignment still there.  Nothing of a request is
\* committed before its commit.
C6_Step ==
    /\ tx'.pc = "rolled_back" =>
          /\ db' = db
          /\ ~Has(db'.routines, tx.st.new_routine_id)
          /\ AssignmentsOf(db', tx.student_id) = AssignmentsOf(db, tx.student_id)
    /\ tx'.pc \in {"copying", "deleted"} => db' = db

C6_AssignmentAtomic == [][C6_Step]_vars

\* Reached: the request failed after it had flushed copies of pieces and the
\* delete of the student's previous assignment; that assignment is still
\* committed.
C6_Witness ==
    /\ tx.pc = "rolled_back"
    /\ last.status = "server_error"
    /\ tx.st.pieces_newly_shared > 0
    /\ AssignmentsOf(tx.st.db, tx.student_id) = {}
    /\ AssignmentsOf(db, tx.student_id) # {}
    /\ ~Has(db.routines, tx.st.new_routine_id)

(***************************************************************************)
(* Properties of reorder_exercises (specification SpecRoutine).            *)
(***************************************************************************)
Range(f) == {f[i] : i \in DOMAIN f}

NoRepeats(f) == \A i, j \in DOMAIN f : i # j => f[i] # f[j]

\* The last place (counted from 0) at which the list names the id.
PositionIn(exercise_ids, id) ==
    (CHOOSE i \in DOMAIN exercise_ids :
        /\ exercise_ids[i] = id
        /\ \A j \in DOMAIN exercise_ids : exercise_ids[j] = id => j <= i) - 1

\* f without the elements that are not in S.
RECURSIVE Restrict(_, _)
Restrict(f, S) ==
    IF f = <<>> THEN <<>>
    ELSE IF Head(f) \in S THEN <<Head(f)>> \o Restrict(Tail(f), S)
    ELSE Restrict(Tail(f), S)

\* C7, the handler on every request of the routine's owner: it succeeds
\* exactly when every id of the list is an exercise of the routine; then
\* every listed exercise has its position in the list as order_index (the
\* last one if the list repeats it), nothing else is changed, and get_routine
\* gives the listed exercises in the order of a list without repeats (all of
\* the routine's exercises in exactly that order when the list names them
\* all); otherwise it fails and nothing is changed.
C7_Handler ==
    \A c \in Callers(db), r \in {x.id : x \in db.routines} :
       \A exercise_ids \in ReorderLists(db, r) :
       Row(db.routines, r).owner_id = c =>
       \A out \in reorder_exercises(db, c, r, exercise_ids) :
          LET valid == \A i \in DOMAIN exercise_ids :
                          \E e \in ExercisesOf(db, r) : e.id = exercise_ids[i]
          IN  /\ valid <=> out.reply.status = "ok"
              /\ ~valid => /\ out.reply.status = "bad_request"
                           /\ out.reply.exercise \in Range(exercise_ids)
                           /\ \A e \in ExercisesOf(db, r) :
                                 e.id # out.reply.exercise
                           /\ out.db = db
              /\ valid =>
                   /\ out.db.exercises =
                         {IF e.id \in Range(exercise_ids)
                          THEN [e EXCEPT !.order_index = PositionIn(exercise_ids, e.id)]
                          ELSE e : e \in db.exercises}
                   /\ [out.db EXCEPT !.exercises = db.exercises] = db
                   /\ NoRepeats(exercise_ids) =>
                        \A got \in get_routine(out.db, c, r) :
                           /\ got.status = "ok"
                           /\ Restrict(IdsIn(got.exercises), Range(exercise_ids))
                                 = exercise_ids

\* C7, the steps: a reorder request that fails changes no table.
C7_Step == (last'.op = "reorder" /\ last'.status # "ok") => db' = db

C7_ReorderAllOrNothing == [](C7_Handler) /\ [][C7_Step]_vars

\* Reached: the owner's list named an exercise of another routine; the
\* request failed for it, although a list that begins with an exercise of
\* the routine that is not at index 0 and goes on with that id was a request
\* that could be made.
C7_Witness ==
    /\ last.op = "reorder" /\ last.status = "bad_request"
    /\ Has(db.routines, last.routine)
    /\ Row(db.routines, last.routine).owner_id = last.caller
    /\ Has(db.exercises, last.exercise)
    /\ Row(db.exercises, last.exercise).routine_id # last.routine
    /\ \E e \in ExercisesOf(db, last.routine) : e.order_index # 0

\* Reached: a reorder was applied to a routine of three exercises and
\* get_routine then gave them in an order that only a reorder produces.
C7_WitnessApplied ==
    /\ last.op = "get_routine" /\ last.status = "ok"
    /\ Len(last.list) = 3
    /\ \A i \in 1..3 : Row(db.exercises, last.list[i]).order_index = i - 1
    /\ Row(db.exercises, last.list[1]).start_page = 2

(***************************************************************************)
(* Properties of exercise completion (specification SpecPractice).         *)
(***************************************************************************)
\* The step is a served complete_exercise_in_session / toggle request.
CompletedNow == last'.op = "complete_exercise" /\ last'.status = "ok"

ToggledNow == last'.op = "toggle" /\ last'.status = "ok"

\* The rows of the pair the reply is about, before and after the step.
RowsBefore == ExerciseSessionsOf(db, last'.session, last'.exercise)

RowsAfter == ExerciseSessionsOf(db', last'.session, last'.exercise)

\* C8, the state: no (session, exercise) pair has two rows.
C8_OneRow ==
    \A x, y \in db.esessions :
       (x.session_id = y.session_id /\ x.exercise_id = y.exercise_id) => x = y

\* C8, the steps: a completion or toggle leaves the pair with one row; if
\* the pair had a row it is that row, with its id, that is updated and
\* returned, and no row is added; the rows of other pairs stay as they are;
\* and neither request ever runs into the unique constraint.
C8_Step ==
    /\ (CompletedNow \/ ToggledNow) =>
          /\ \E x \in db'.esessions : RowsAfter = {x} /\ x.id = last'.row
          /\ RowsBefore # {} =>
                /\ \E x \in RowsBefore : x.id = last'.row
                /\ Cardinality(db'.esessions) = Cardinality(db.esessions)
          /\ RowsBefore = {} =>
                Cardinality(db'.esessions) = Cardinality(db.esessions) + 1
          /\ db'.esessions \ RowsAfter = db.esessions \ RowsBefore
    /\ last'.op \in {"complete_exercise", "toggle"} =>
          last'.status # "integrity_error"

C8_OneRowPerExercise == [](C8_OneRow) /\ [][C8_Step]_vars

\* Reached: a second completion of an exercise returned the row of the
\* first, with new content, and no second row was made.
C8_Witness ==
    /\ last.op = "complete_exercise" /\ last.status = "ok"
    /\ last.row = 1
    /\ Row(db.esessions, 1).completed_at = now - 1
    /\ Row(db.esessions, 1).actual_time_seconds = 180
    /\ Cardinality(db.esessions) = 1

\* C9 as the specification has it: after a completion the row's
\* actual_time_seconds and reflections are those of the request's body (null
\* for a field the body does not carry).
C9_Original_Step ==
    CompletedNow =>
       \A x \in RowsAfter :
          /\ x.actual_time_seconds = last'.payload.actual_time_seconds
          /\ x.reflections = last'.payload.reflections

C9_Original == [][C9_Original_Step]_vars

\* The value a completion leaves in a field: the body's, if the body carries
\* the field; otherwise the value the row had, null if there was no row.
Merged(field, carried, kept) ==
    IF field \in last'.payload.fields_set THEN carried
    ELSE IF RowsBefore # {} THEN kept ELSE carried

\* C9, amended: after a completion each field the body carries has the
\* body's value; a field the body does not carry keeps the value the row
\* had before, and is null if the completion made the row.
C9_Step ==
    CompletedNow =>
       \A x \in RowsAfter :
          /\ x.completed_at = now
          /\ \A old \in IF RowsBefore # {} THEN RowsBefore ELSE {x} :
               /\ x.actual_time_seconds =
                     Merged("actual_time_seconds",
                            last'.payload.actual_time_seconds,
                            old.actual_time_seconds)
               /\ x.reflections =
                     Merged("reflections", last'.payload.reflections,
                            old.reflections)

C9_LatestCarriedFields == [][C9_Step]_vars

\* Reached: the row of an earlier completion with reflections was completed
\* again with a body of actual_time_seconds alone; the row has the new time
\* and the old reflections.
C9_Witness ==
    /\ last.op = "complete_exercise" /\ last.status = "ok"
    /\ last.payload.fields_set = {"actual_time_seconds"}
    /\ \E x \in db.esessions :
          /\ x.id = last.row
          /\ x.actual_time_seconds = last.payload.actual_time_seconds
          /\ x.reflections # NullStr

\* C10: a toggle with is_complete = false leaves the pair's row with
\* completed_at, actual_time_seconds and reflections all null, whatever the
\* body carries, and leaves the row there: the row the pair had, if it had
\* one, and no row is removed.
C10_Step ==
    (ToggledNow /\ ~last'.payload.is_complete) =>
       /\ \E x \in db'.esessions :
             /\ RowsAfter = {x}
             /\ x.completed_at = Null
             /\ x.actual_time_seconds = Null
             /\ x.reflections = NullStr
             /\ \A old \in RowsBefore : old.id = x.id
       /\ Cardinality(db'.esessions) >= Cardinality(db.esessions)

C10_ToggleOffClears == [][C10_Step]_vars

\* Reached: a completed row with time and reflections was toggled off by a
\* request that carried a time and reflections.
C10_Witness ==
    /\ last.op = "toggle" /\ last.status = "ok"
    /\ ~last.payload.is_complete
    /\ last.payload.actual_time_seconds = 120
    /\ last.payload.reflections = "good"
    /\ last.row = 1
    /\ Row(db.esessions, 1).completed_at = Null
    /\ Row(db.esessions, 1).actual_time_seconds = Null
    /\ Row(db.esessions, 1).reflections = NullStr

\* Reached, after it: a completion with an empty body reused the row that
\* had been toggled off.
C10_WitnessReused ==
    /\ last.op = "complete_exercise" /\ last.status = "ok"
    /\ last.payload.fields_set = {}
    /\ last.row = 1
    /\ Cardinality(db.esessions) = 1
    /\ Row(db.esessions, 1).completed_at = now - 1
    /\ Row(db.esessions, 1).actual_time_seconds = Null

(***************************************************************************)
(* Properties of authentication (specification SpecAuth).                  *)
(***************************************************************************)
\* The step is a GET /auth/me that presented "dev_token_user_<id>".
DevTokenNow == last'.op = "me" /\ last'.credential.kind = "dev"

\* The user the dev token names is one that a development login made.
NamesDevUser(d, token) ==
    \E u \in d.users : u.id = token.suffix /\ IsDevMarker(u.apple_user_id)

\* C11: a dev token dev_token_user_<id> authenticates as user <id> only when
\* the deployment is in development mode and that user's apple_user_id
\* carries a development marker; for an Apple-sign-in user, an id that names
\* no user, or a deployment that is not in development mode the request is
\* rejected as unauthenticated and no user row is created.
C11_Step ==
    DevTokenNow =>
       IF is_dev(settings) /\ NamesDevUser(db, last'.credential)
       THEN last'.status = "ok" /\ last'.caller = last'.credential.suffix
       ELSE last'.status = "unauthenticated" /\ db' = db

C11_DevTokenGuarded == [][C11_Step]_vars

\* The step is a sign-in whose identity token Apple verified.
SignedInNow == last'.op = "apple" /\ last'.id_token.verdict = "verified"

\* The address of a verified identity token.
EmailOf(id_token) ==
    IF id_token.email = Null THEN privaterelay_email(id_token.sub)
    ELSE id_token.email

\* C12: Apple sign-in with verified subject s and email e resolves or creates
\* in order: a user with apple_user_id = s is returned and no row is created
\* or changed; otherwise a user with email e is given apple_user_id = s and
\* returned, its id and teacher_id and every other row as they were;
\* otherwise exactly one new user, with s and e, is created and returned.
C12_Step ==
    SignedInNow =>
       LET s == last'.id_token.sub
           e == EmailOf(last'.id_token)
           by_apple == {u \in db.users : u.apple_user_id = s}
           by_email == {u \in db.users : u.email = e}
       IN  /\ last'.status = "ok"
           /\ IF by_apple # {}
              THEN /\ db' = db
                   /\ last'.caller \in {u.id : u \in by_apple}
              ELSE IF by_email # {}
              THEN \E user \in by_email :
                      /\ last'.caller = user.id
                      /\ db' = [db EXCEPT !.users = (@ \ {user}) \cup
                                  {[user EXCEPT !.apple_user_id = s]}]
                      /\ \A v \in db'.users :
                            v.teacher_id = user.id => v \in db.users
              ELSE \E user \in db'.users :
                      /\ user.id \notin UserIds(db)
                      /\ last'.caller = user.id
                      /\ user.apple_user_id = s /\ user.email = e
                      /\ user.teacher_id = Null
                      /\ db'.users = db.users \cup {user}
                      /\ [db' EXCEPT !.users = db.users, !.next = db.next] = db

C12_ResolveOrCreate == [][C12_Step]_vars

\* A stub that a student named as teacher has signed in with Apple: it holds
\* the subject of the token and the student's teacher_id still names it.
C12_Witness ==
    /\ last.op = "apple" /\ last.status = "ok"
    /\ last.id_token = AppleIdToken("verified", 3, 3)
    /\ \E u \in db.users :
          /\ u.id = last.caller /\ u.apple_user_id = 3 /\ u.email = 3
          /\ \E v \in db.users : v.teacher_id = u.id

\* A sign-in that made a new user with a relay address.
C12_WitnessCreated ==
    /\ last.op = "apple" /\ last.status = "ok"
    /\ \E u \in db.users :
          /\ u.id = last.caller /\ u.id \notin UserIds(EmptyDb)
          /\ u.email = privaterelay_email(3)

\* The credentials that take the session-token path of get_current_user.
SessionTokens(d) ==
    {t \in Tokens(d) : ~(t.kind = "dev" /\ t.suffix # Null)}

\* What two rejected callers can tell apart.
Told(reply) == <<reply.status, reply.detail>>

\* C13: every authentication failure of a bearer credential (malformed token,
\* bad signature, expired token, missing or non-integer subject claim, subject
\* naming no user) is reported as the same single outcome: the status and the
\* detail the caller gets do not depend on which check failed.
C13_UniformFailure ==
    \A t1 \in SessionTokens(db), t2 \in SessionTokens(db) :
       \A o1 \in get_current_user_info(db, settings, t1) :
          \A o2 \in get_current_user_info(db, settings, t2) :
             (o1.reply.status # "ok" /\ o2.reply.status # "ok")
                => Told(o1.reply) = Told(o2.reply)

(***************************************************************************)
(* Properties of the piece library (specification SpecLibrary).            *)
(***************************************************************************)
\* The step is a share_piece_with_student request for an existing piece and
\* an existing target user.
ShareAskedNow ==
    /\ last'.op = "share_piece"
    /\ Has(db.pieces, last'.piece) /\ Has(db.users, last'.student)

\* The caller of the request owns the piece and is the target's teacher.
MayShare(d, c, piece_id, student_id) ==
    /\ Row(d.pieces, piece_id).owner_id = c
    /\ Row(d.users, student_id).teacher_id = c

\* The pieces the step created.
NewPieces == {p \in db'.pieces : p.id \notin Ids(db.pieces)}

\* C14: share_piece_with_student creates a copy only when the caller owns the
\* piece and the target user's teacher_id is the caller's id; a caller who
\* does not own the piece, or a target who is not the caller's student, is
\* rejected as Forbidden and no Piece row is created.
C14_Step ==
    /\ last'.op = "share_piece" /\ NewPieces # {}
          => /\ ShareAskedNow
             /\ MayShare(db, last'.caller, last'.piece, last'.student)
    /\ ShareAskedNow =>
          IF MayShare(db, last'.caller, last'.piece, last'.student)
          THEN /\ last'.status = "ok"
               /\ Cardinality(NewPieces) = 1
               /\ \A p \in NewPieces : p.owner_id = last'.student
          ELSE last'.status = "forbidden" /\ db' = db

C14_ShareOnlyWithOwnStudent == [][C14_Step]_vars

\* The owner of a piece asked to share it with a user who is not their
\* student and was refused.
C14_Witness ==
    /\ last.op = "share_piece" /\ last.status = "forbidden"
    /\ Has(db.pieces, last.piece) /\ Has(db.users, last.student)
    /\ Row(db.pieces, last.piece).owner_id = last.caller
    /\ Row(db.users, last.student).teacher_id # last.caller

\* A teacher shared a piece with their student.
C14_WitnessShared ==
    /\ last.op = "share_piece" /\ last.status = "ok"
    /\ \E p \in db.pieces :
          p.shared_from_piece_id = last.piece /\ p.owner_id = last.student

\* C15: a Piece created by share_piece_with_student is owned by the student,
\* has shared_from_piece_id equal to the source piece id, and carries the
\* object-store key of the source (null only when the source has none), so
\* that the student can get a download URL for the copy.
C15_Step ==
    (last'.op = "share_piece" /\ last'.status = "ok") =>
       LET source == Row(db.pieces, last'.piece) IN
       /\ NewPieces # {}
       /\ \A p \in NewPieces :
             /\ p.owner_id = last'.student
             /\ p.shared_from_piece_id = source.id
             /\ p.s3_key = source.s3_key
             /\ source.s3_key # Null =>
                   \A out \in get_piece_download_url(db', p.owner_id, p.id) :
                      out.reply.status = "ok"

C15_SharedCopyKeepsKey == [][C15_Step]_vars

\* C16: copies are independent rows: update_piece or delete_piece applied to
\* a piece leaves every other piece as it was (for a copy D of S: a change
\* of D leaves S, an update of S leaves D), and an assignment leaves the
\* teacher's source routine, its exercises and their pieces as they were.
C16_Step ==
    /\ last'.op \in {"update_piece", "delete_piece"} =>
          /\ \A x \in db.pieces : x.id # last'.piece => x \in db'.pieces
          /\ \A x \in db'.pieces : x.id # last'.piece => x \in db.pieces
    /\ AssignedNow =>
          /\ Row(db.routines, last'.routine) \in db'.routines
          /\ ExercisesOf(db, last'.routine) = ExercisesOf(db', last'.routine)
          /\ \A e \in ExercisesOf(db, last'.routine) :
                Row(db.pieces, e.piece_id) \in db'.pieces

C16_CopiesIndependent == [][C16_Step]_vars

\* A student renamed their copy and the source kept its title.
C16_Witness ==
    /\ last.op = "update_piece" /\ last.status = "ok"
    /\ \E copy \in db.pieces, source \in db.pieces :
          /\ copy.id = last.piece /\ copy.shared_from_piece_id = source.id
          /\ copy.title = "Bach" /\ source.title = "Scales"

\* A student deleted their copy and the source is still there.
C16_WitnessDeleted ==
    /\ last.op = "delete_piece" /\ last.status = "ok"
    /\ ~Has(db.pieces, last.piece)
    /\ db.pieces = StudioDb.pieces

(***************************************************************************)
(* Properties of video feedback (specification SpecFeedback).              *)
(***************************************************************************)
\* The caller is the owner of the submission or the owner's teacher now.
OwnerOrTeacher(d, c, submission_id) ==
    LET owner == Row(d.submissions, submission_id).user_id
    IN  c = owner \/ \E u \in d.users : u.id = owner /\ u.teacher_id = c

\* The messages the step created.
NewMessages == {m \in db'.messages : m.id \notin Ids(db.messages)}

\* C17: the messages of a VideoSubmission can be listed and created only by
\* the submission's owner or by the owner's teacher at the time of the call;
\* every other caller gets Forbidden and no Message row is created, so the
\* sender of every message is the owner or was the owner's teacher when the
\* message was sent.
C17_Step ==
    /\ NewMessages # {} => last'.op = "create_message"
    /\ (/\ last'.op \in {"create_message", "list_messages"}
        /\ Has(db.submissions, last'.submission)) =>
          IF OwnerOrTeacher(db, last'.caller, last'.submission)
          THEN /\ \A m \in NewMessages :
                     /\ m.sender_id = last'.caller
                     /\ m.submission_id = last'.submission
               /\ last'.op = "list_messages" =>
                     /\ last'.status = "ok"
                     /\ Range(last'.list) =
                           {m.id : m \in {x \in db.messages :
                                            x.submission_id = last'.submission}}
          ELSE last'.status = "forbidden" /\ db' = db

C17_MessagesBetweenParticipants == [][C17_Step]_vars

\* The teacher the student has left asked to write to the student's
\* submission and was refused; the message the teacher sent before is there.
C17_Witness ==
    /\ last.op = "create_message" /\ last.status = "forbidden"
    /\ last.caller = 1 /\ last.submission = 1
    /\ Row(db.users, 2).teacher_id = Null
    /\ \E m \in db.messages : m.submission_id = 1 /\ m.sender_id = 1

\* The student answered the teacher on their own submission.
C17_WitnessSent ==
    /\ last.op = "create_message" /\ last.status = "ok"
    /\ \E m \in db.messages :
          m.id = last.row /\ m.sender_id = 2 /\ m.submission_id = 1

\* A text that is nothing or white space only.
IsBlank(text) == text \in {NullStr, "", "  "}

\* A stored message has text or a video, and a video has a duration.
WellFormedMessage(m) ==
    /\ ~IsBlank(m.text) \/ m.video_s3_key # Null
    /\ m.video_s3_key # Null => m.video_duration_seconds # Null

\* C18: create_submission_message rejects a message with neither text nor
\* video (white space only is no text) and a video message without
\* video_duration_seconds, and creates no row for either; every stored
\* Message has text that is not empty or a video key, a stored video key
\* comes with a duration, and upload URLs are returned only when the message
\* includes a video.
C18_MessageContent ==
    /\ \A m \in db.messages : WellFormedMessage(m)
    /\ \A c \in Callers(db), v \in Ids(db.submissions), message \in Messages,
          s3_ok \in BOOLEAN :
          OwnerOrTeacher(db, c, v) =>
             \A out \in create_submission_message(db, c, v, message, s3_ok) :
                /\ (IsBlank(message.text) /\ ~message.include_video)
                      => out.reply.status = "unprocessable" /\ out.db = db
                /\ (message.include_video /\ message.video_duration_seconds = Null)
                      => out.reply.status = "unprocessable" /\ out.db = db
                /\ \A m \in out.db.messages : WellFormedMessage(m)
                /\ out.reply.status = "ok" =>
                      /\ message.include_video <=> out.reply.upload_url # Null
                      /\ message.include_video
                            <=> out.reply.thumbnail_upload_url # Null
                /\ out.reply.status # "ok" =>
                      /\ out.reply.upload_url = Null
                      /\ out.reply.thumbnail_upload_url = Null

\* A participant sent a message without text and video and was refused.
C18_Witness ==
    /\ last.op = "create_message" /\ last.status = "unprocessable"
    /\ OwnerOrTeacher(db, last.caller, last.submission)

\* A video message is stored and its upload URLs were returned.
C18_WitnessVideo ==
    /\ last.op = "create_message" /\ last.status = "ok"
    /\ last.upload_url # Null /\ last.thumbnail_upload_url # Null
    /\ \E m \in db.messages :
          /\ m.id = last.row /\ IsBlank(m.text)
          /\ m.video_s3_key # Null /\ m.video_duration_seconds = 30

\* C19: mark_video_submission_reviewed succeeds only for the submitter's
\* teacher at the time of the call (the submitter and every other caller get
\* Forbidden and the submission stays as it was); on success reviewed_by_id
\* is the caller, reviewed_at is set, and the submission is no longer in the
\* teacher's pending_review list of that student.
C19_Step ==
    (last'.op = "mark_reviewed" /\ Has(db.submissions, last'.submission)) =>
       LET submission == Row(db.submissions, last'.submission)
           c == last'.caller
       IN  IF Row(db.users, submission.user_id).teacher_id = c
           THEN /\ last'.status = "ok"
                /\ \E reviewed \in db'.submissions :
                      /\ reviewed.reviewed_by_id = c
                      /\ reviewed.reviewed_at # Null
                      /\ [reviewed EXCEPT
                            !.reviewed_by_id = submission.reviewed_by_id,
                            !.reviewed_at = submission.reviewed_at] = submission
                      /\ db' = [db EXCEPT !.submissions =
                                   (@ \ {submission}) \cup {reviewed}]
                /\ \A out \in get_student_video_submissions(
                                 db', c, submission.user_id, TRUE) :
                      /\ out.reply.status = "ok"
                      /\ submission.id \notin Range(out.reply.list)
           ELSE last'.status = "forbidden" /\ db' = db

C19_ReviewByTeacher == [][C19_Step]_vars

\* The teacher marked the student's submission reviewed.
C19_Witness ==
    /\ last.op = "mark_reviewed" /\ last.status = "ok"
    /\ \E v \in db.submissions :
          /\ v.id = last.submission /\ v.reviewed_by_id = last.caller
          /\ v.reviewed_at # Null
          /\ Row(db.users, v.user_id).teacher_id = last.caller

\* The submitter asked to mark their own submission and was refused.
C19_WitnessForbidden ==
    /\ last.op = "mark_reviewed" /\ last.status = "forbidden"
    /\ Has(db.submissions, last.submission)
    /\ Row(db.submissions, last.submission).user_id = last.caller
    /\ Row(db.submissions, last.submission).reviewed_at = Null

\* C20: no handler performs a partial write and then fails: whenever a
\* request is answered with an error (authorization, validation, or a failure
\* of the object store during create_piece, create_video_submission or
\* create_submission_message), the committed tables and the object store are
\* the same as before the request.
C20_Step == last'.status # "ok" => db' = db

C20_NoPartialWrite == [][C20_Step]_vars


\* ---------------------------------------------------------------------
\* C21
\* ---------------------------------------------------------------------

\* Rows outside the routine that point at it or at one of its exercises:
\* the database refuses to delete a row that is still referenced.
RoutineReferenced(d, routine_id) ==
    \/ \E a \in d.assignments : a.routine_id = routine_id
    \/ \E s \in d.psessions : s.routine_id = routine_id
    \/ \E r \in d.routines : r.shared_from_routine_id = routine_id
    \/ \E e \in ExercisesOf(d, routine_id) :
          \/ \E x \in d.esessions : x.exercise_id = e.id
          \/ \E v \in d.submissions : v.exercise_id = e.id

WithoutRoutine(d, routine_id) ==
    [d EXCEPT !.exercises = @ \ ExercisesOf(d, routine_id),
              !.routines = {r \in @ : r.id # routine_id}]

C21_DeleteByOwner(d, c, routine_id) ==
    \A out \in delete_routine(d, c, routine_id) :
        /\ out.reply.status = "ok" => out.db = WithoutRoutine(d, routine_id)
        /\ out.reply.status # "ok" => out.db = d
        /\ ~RoutineReferenced(d, routine_id) => out.reply.status = "ok"

C21_RejectOthers(d, c, routine_id) ==
    /\ \A out \in delete_routine(d, c, routine_id) :
          out.reply.status = "forbidden" /\ out.db = d
    /\ \A title \in Titles, description \in Descriptions :
          \A out \in update_routine(d, c, routine_id, title, description) :
              out.reply.status = "forbidden" /\ out.db = d

IsCompleted(session) ==
    /\ session.completed_at # Null
    /\ session.duration_seconds = session.completed_at - session.started_at
    /\ session.duration_seconds \in Nat

\* Every session has started; it is open with no duration, or completed
\* with the seconds from its start to its completion.
C22_SessionStates ==
    \A s \in db.psessions :
        /\ s.started_at # Null
        /\ s.completed_at = Null \/ IsCompleted(s)

\* What complete_practice_session answers from the present state: another
\* user is refused and nothing changes, the owner's session is completed.
C22_OnlyOwnerCompletes ==
    \A c \in UserIds(db), s \in db.psessions :
        \A out \in complete_practice_session(db, c, s.id) :
            IF s.user_id # c
            THEN out.reply.status = "forbidden" /\ out.db = db
            ELSE /\ out.reply.status = "ok"
                 /\ IsCompleted(Row(out.db.psessions, s.id))
                 /\ Row(out.db.psessions, s.id).completed_at = now

C22_Step ==
    /\ \A s \in db.psessions :
          /\ Has(db'.psessions, s.id)
          /\ s.completed_at # Null => Row(db'.psessions, s.id).completed_at # Null
    /\ \A s \in db'.psessions :
          ~Has(db.psessions, s.id) => s.completed_at = Null /\ s.started_at = now

\* C22: a practice session goes one way from started to completed.  It is
\* created with completed_at null and started_at set, only its owner can
\* complete it, no request (a repeated complete included) makes a
\* completed session open again, and a completed session's
\* duration_seconds is the non-negative whole number of seconds between
\* started_at and completed_at.
C22_SessionOneWay ==
    /\ [](C22_SessionStates /\ C22_OnlyOwnerCompletes)
    /\ [][C22_Step]_vars

\* Session 1, started at 0, was completed twice: the second call stamped it
\* again.
C22_Witness ==
    /\ requests = 2
    /\ \E s \in db.psessions :
          s.id = 1 /\ s.started_at = 0 /\ s.completed_at = 2 /\ s.duration_seconds = 2

\* ---------------------------------------------------------------------
\* C23
\* ---------------------------------------------------------------------

IsReviewed(submission) ==
    submission.reviewed_at # Null /\ submission.reviewed_by_id # Null

\* after keeps every submission of before, and those reviewed stay reviewed.
StaysReviewed(before, after) ==
    \A v \in before.submissions :
        /\ Has(after.submissions, v.id)
        /\ IsReviewed(v) => IsReviewed(Row(after.submissions, v.id))

\* A submission is pending with no reviewer, or reviewed by somebody.
C23_SubmissionStates ==
    \A v \in db.submissions :
        (v.reviewed_at = Null /\ v.reviewed_by_id = Null) \/ IsReviewed(v)

\* Whatever a user asks next -- a review, a repeated one included, or a
\* change or removal of their teacher -- leaves the reviewed reviewed.
C23_RequestsKeepReviewed ==
    \A c \in UserIds(db) :
        /\ \A v \in db.submissions :
              \A out \in mark_video_submission_reviewed(db, c, v.id) :
                  StaysReviewed(db, out.db)
        /\ \A out \in remove_teacher(db, c) : StaysReviewed(db, out.db)
        /\ \A teacher_email \in Emails :
              \A out \in set_teacher(db, c, teacher_email) : StaysReviewed(db, out.db)

C23_Step ==
    /\ StaysReviewed(db, db')
    /\ \A v \in db'.submissions :
          ~Has(db.submissions, v.id) => v.reviewed_at = Null /\ v.reviewed_by_id = Null

\* C23: a video submission goes one way from submitted to reviewed.  It is
\* created with reviewed_at and reviewed_by_id null, and once reviewed_at
\* is set no request (a repeated review, the student changing or
\* removing their teacher) makes it pending again.
C23_SubmissionOneWay ==
    /\ [](C23_SubmissionStates /\ C23_RequestsKeepReviewed)
    /\ [][C23_Step]_vars

\* Submission 1 was reviewed by teacher 1, and its student has left the
\* teacher since.
C23_Witness ==
    /\ \E v \in db.submissions : v.id = 1 /\ v.reviewed_at # Null /\ v.reviewed_by_id = 1
    /\ \E u \in db.users : u.id = 2 /\ u.teacher_id = Null

\* Submission 1 was reviewed twice: the second review stamped it again.
C23_WitnessRepeated ==
    \E v \in db.submissions : v.id = 1 /\ v.reviewed_at = 2

\* ---------------------------------------------------------------------
\* C24
\* ---------------------------------------------------------------------

Running == tx.pc \in {"lookup", "refresh", "decode"}

KidAmong(keys) == tx.kid # Null /\ tx.kid \in keys

\* At most two lookups, the second only when the first did not hold the
\* token's key id; each lookup fetches at most once; a payload is returned
\* only for a token whose key was found and that jwt.decode accepts.
C24_Lookups ==
    /\ tx.lookups \in 0..2
    /\ tx.fetches \in 0..tx.lookups
    /\ tx.pc = "lookup" => tx.lookups = 0
    /\ tx.pc = "refresh" => tx.lookups = 1 /\ ~KidAmong(tx.first)
    /\ tx.lookups = 2 => ~KidAmong(tx.first)
    /\ tx.pc = "decode" => KidAmong(jwks_cache.keys) \/ ~jwks_cache.held
    /\ tx.pc = "done" => last.status \in {"verified", "invalid", "unavailable"}
    /\ (tx.pc = "done" /\ last.status = "verified") => tx.genuine /\ tx.lookups >= 1

\* What one lookup does from the present cache: it fetches once or not at
\* all; a fetch that fails with an HTTP error is answered from the cached
\* keys when the cache holds them; any other failed fetch is raised.
C24_FailedFetch ==
    \A fetched \in FetchOutcomes, force_refresh \in BOOLEAN :
        LET got == get_apple_public_keys(jwks_cache, force_refresh, fetched) IN
        /\ got.fetches \in 0..1
        /\ got.fetches = 0 <=> (~force_refresh /\ jwks_cache.held)
        /\ (got.fetches = 1 /\ fetched.error = "HTTPError" /\ jwks_cache.held)
              => got.raised = "none" /\ got.keys = jwks_cache.keys
        /\ (got.fetches = 1 /\ fetched.error # "none" /\ ~jwks_cache.held)
              => got.raised # "none"
        /\ got.raised # "none" => got.fetches = 1 /\ fetched.error # "none"

\* The forced refresh is the last lookup: the key is found, or the token
\* is rejected, or the failure is raised; and a raised failure ends the call.
C24_Step ==
    /\ (tx.pc = "refresh" /\ tx' # tx) =>
          \/ tx'.pc = "decode" /\ KidAmong(jwks_cache'.keys)
          \/ tx'.pc = "done" /\ last'.status = "invalid" /\ ~KidAmong(jwks_cache'.keys)
          \/ tx'.pc = "done" /\ last'.status = "unavailable"
    /\ (tx.pc = "lookup" /\ tx' # tx) =>
          \/ tx'.pc = "decode" /\ KidAmong(tx'.first)
          \/ tx'.pc = "refresh" /\ ~KidAmong(tx'.first)
          \/ tx'.pc = "done" /\ last'.status = "unavailable"
    /\ (Running /\ tx' # tx) => tx'.lookups + tx'.fetches >= tx.lookups + tx.fetches

C24_WitnessRejected ==
    /\ tx.pc = "done"
    /\ tx.lookups = 2
    /\ tx.kid = 3
    /\ last.status = "invalid"

\* ---------------------------------------------------------------------
\* C25
\* ---------------------------------------------------------------------

C25_AtMostOne ==
    \A u \in db.users : Cardinality(AssignmentsOf(db, u.id)) <= 1

\* An assignment committed for a student is followed by one in every later
\* committed state, and an assignment request that fails commits no row.
C25_Step ==
    /\ \A u \in db.users :
          AssignmentsOf(db, u.id) # {} => AssignmentsOf(db', u.id) # {}
    /\ (last'.op = "assign" /\ last'.status # "ok" /\ <<last, tx>>' # <<last, tx>>) =>
          /\ db'.routines = db.routines
          /\ db'.pieces = db.pieces
          /\ db'.exercises = db.exercises
          /\ db'.assignments = db.assignments

\* C25: however two assign_routine_to_student requests for one student
\* interleave, every committed state holds at most one RoutineAssignment
\* of the student, none holds zero once one was committed, and the
\* request that loses the race commits no routine or piece copy.
C25_ConcurrentAssign == [](C25_AtMostOne) /\ [][C25_Step]_vars

\* The request in progress lost the race: the other request's assignment
\* is committed, its own insert was refused and its copies are gone.
C25_Witness ==
    /\ last.op = "assign"
    /\ last.status = "integrity_error"
    /\ tx = NoTx
    /\ \E a \in db.assignments : a.student_id = 2

\* Both requests replaced an earlier assignment one after the other.
C25_WitnessBoth ==
    /\ requests = 2
    /\ last.op = "assign" /\ last.status = "ok"
    /\ Cardinality(AssignmentsOf(db, 2)) = 1
    /\ Cardinality({r \in db.routines : r.owner_id = 2}) = 3

\* ---------------------------------------------------------------------
\* C26
\* ---------------------------------------------------------------------

C26_Step ==
    \A u \in db.users :
        u.apple_user_id # Null =>
            /\ Has(db'.users, u.id)
            /\ Row(db'.users, u.id).apple_user_id = u.apple_user_id

\* C26: a user row's apple_user_id, once non-null, is never changed by any
\* request (an Apple sign-in with another subject and the same email, a
\* dev-login with the email, set-teacher): only a stub user, whose
\* apple_user_id is null, is upgraded by its email.
C26_AppleIdStable == [][C26_Step]_vars

\* ---------------------------------------------------------------------
\* C27
\* ---------------------------------------------------------------------

\* Each assignment of d names a routine of d that its student owns.
AssignmentsResolve(d) ==
    \A a \in d.assignments :
        /\ Has(d.routines, a.routine_id)
        /\ Row(d.routines, a.routine_id).owner_id = a.student_id

\* An answer of the current-routine handlers: nothing, or a routine that
\* exists together with all of its exercises.
NothingOrRoutine(out) ==
    /\ out.status = "ok"
    /\ \/ out.routine = Null /\ out.exercises = <<>>
       \/ /\ Has(db.routines, out.routine)
          /\ Range(out.exercises) = ExercisesOf(db, out.routine)

ExercisesOnOwnPieces(d) ==
    \A e \in d.exercises :
        /\ Has(d.routines, e.routine_id)
        /\ Has(d.pieces, e.piece_id)
        /\ Row(d.pieces, e.piece_id).owner_id = Row(d.routines, e.routine_id).owner_id

\* C28: in every state reached through add_exercise_to_routine,
\* assign_routine_to_student, share_piece and the updates and deletes of
\* pieces and routines, each exercise references an existing piece whose
\* owner is the owner of the exercise's routine.
C28_ExercisePieceOwner ==
    /\ ExercisesOnOwnPieces(db)
    /\ \A c \in UserIds(db), r \in db.routines :
          \A title \in Titles, description \in Descriptions :
              \A out \in update_routine(db, c, r.id, title, description) :
                  ExercisesOnOwnPieces(out.db)

\* An assignment copied an exercise into the student's routine, on the
\* student's copy of the piece.
C28_Witness ==
    \E e \in db.exercises :
        /\ Row(db.routines, e.routine_id).owner_id = 2
        /\ Row(db.pieces, e.piece_id).owner_id = 2
        /\ Row(db.pieces, e.piece_id).shared_from_piece_id # Null

\* add_exercise_to_routine added an exercise to a routine that is no copy.
C28_WitnessAdded ==
    \E e \in db.exercises :
        /\ e.id >= 5
        /\ Row(db.routines, e.routine_id).shared_from_routine_id = Null

\* ---------------------------------------------------------------------
\* C29
\* ---------------------------------------------------------------------

\* C29: an ExerciseSession row whose completed_at is null has
\* actual_time_seconds null and reflections null as well, the row that a
\* toggle to incomplete creates for a pair without a row included.
C29_IncompleteRowEmpty ==
    \A x \in db.esessions :
        x.completed_at = Null =>
            x.actual_time_seconds = Null /\ x.reflections = NullStr

\* A toggle to incomplete, sent with a time and reflections, made the
\* first row of its pair: row 2, next to the one row there was.
C29_Witness ==
    /\ last.op = "toggle" /\ last.status = "ok"
    /\ ~last.payload.is_complete
    /\ last.payload.fields_set = {"actual_time_seconds", "reflections"}
    /\ last.payload.reflections = "good"
    /\ requests = 1
    /\ last.row = 2
    /\ Row(db.esessions, 2).completed_at = Null

\* A completed row was toggled to incomplete.
C29_WitnessCleared ==
    /\ last.op = "toggle" /\ last.status = "ok"
    /\ last.row = 1
    /\ requests = 1
    /\ Row(db.esessions, 1).completed_at = Null
    /\ Cardinality(db.esessions) = 1

\* ---------------------------------------------------------------------
\* C30
\* ---------------------------------------------------------------------

Forbidden(outcomes) == \A out \in outcomes : out.reply.status = "forbidden" /\ out.db = db

Allowed(outcomes) == \A out \in outcomes : out.reply.status = "ok"

\* The requests of user t about student u and u's submissions: all
\* refused as Forbidden, nothing written.
C30_Refused(t, u) ==
    /\ \A r \in db.routines : Forbidden(assign_routine_to_student(db, t, u.id, r.id))
    /\ \A p \in db.pieces : Forbidden(share_piece_with_student(db, t, p.id, u.id))
    /\ get_student_pieces(db, t, u.id).status = "forbidden"
    /\ \A out \in get_student_current_routine(db, t, u.id) : out.status = "forbidden"
    /\ \A pending_review \in BOOLEAN :
          Forbidden(get_student_video_submissions(db, t, u.id, pending_review))
    /\ \A v \in db.submissions :
          v.user_id = u.id =>
             /\ Forbidden(mark_video_submission_reviewed(db, t, v.id))
             /\ Forbidden(list_submission_messages(db, t, v.id))
             /\ \A message \in Messages, s3_ok \in BOOLEAN :
                   Forbidden(create_submission_message(db, t, v.id, message, s3_ok))

\* The same requests by the student's teacher: none is refused as
\* Forbidden, and those that name the teacher's own routine or piece, or
\* read, or review, are served.
C30_Granted(t, u) ==
    /\ \A r \in db.routines :
          r.owner_id = t => Allowed(assign_routine_to_student(db, t, u.id, r.id))
    /\ \A p \in db.pieces :
          p.owner_id = t => Allowed(share_piece_with_student(db, t, p.id, u.id))
    /\ get_student_pieces(db, t, u.id).status = "ok"
    /\ \A out \in get_student_current_routine(db, t, u.id) : out.status = "ok"
    /\ \A pending_review \in BOOLEAN :
          Allowed(get_student_video_submissions(db, t, u.id, pending_review))
    /\ \A v \in db.submissions :
          v.user_id = u.id =>
             /\ Allowed(mark_video_submission_reviewed(db, t, v.id))
             /\ Allowed(list_submission_messages(db, t, v.id))
             /\ \A message \in Messages, s3_ok \in BOOLEAN :
                   \A out \in create_submission_message(db, t, v.id, message, s3_ok) :
                       out.reply.status # "forbidden"

\* C30: a teacher's rights over a student follow the student's current
\* teacher_id.  In every state, whatever teachers the student had before
\* remove_teacher or set_teacher, a user other than the current teacher
\* (a former teacher included) is refused as Forbidden when assigning a
\* routine, sharing a piece, viewing the student's pieces, current routine
\* or submissions, marking a submission reviewed and reading or writing
\* its messages; the current teacher has exactly these rights.
C30_RightsFollowTeacher ==
    \A u \in db.users, t \in UserIds(db) :
        t # u.id =>
            IF u.teacher_id = t THEN C30_Granted(t, u) ELSE C30_Refused(t, u)

\* Student 2, whose teacher was user 1, has named a new teacher, user 3:
\* user 1 is refused the review of submission 1 and user 3 is not.
C30_Witness ==
    /\ \E u \in db.users : u.id = 2 /\ u.teacher_id = 3
    /\ Has(db.submissions, 1)
    /\ Forbidden(mark_video_submission_reviewed(db, 1, 1))
    /\ Allowed(mark_video_submission_reviewed(db, 3, 1))

\* Student 2 has left teacher 1 after a review by teacher 1.
C30_WitnessLeft ==
    /\ \E u \in db.users : u.id = 2 /\ u.teacher_id = Null
    /\ \E v \in db.submissions : v.id = 1 /\ v.reviewed_by_id = 1
    /\ Forbidden(list_submission_messages(db, 1, 1))
====
